---- MODULE Spec2Model ----
(***************************************************************************)
(* A model of the l-rust tree-walking interpreter: the Environment, the    *)
(* Interpreter (interpret / execute / evaluate) and the recursive-descent  *)
(* Parser with its error recovery (crates/common), the Scanner and run     *)
(* (crates/intepreter).                                                    *)
(*                                                                         *)
(* Text (Rust String / &str) is a sequence of one-character strings, so    *)
(* that lexemes, string values and printed lines are built and compared    *)
(* the way the code builds them.  An Option<T> is <<>> (None) or <<x>>     *)
(* (Some(x)).  A Result is a record with a status field.                   *)
(***************************************************************************)
EXTENDS Integers, Sequences, FiniteSets, TLC

VARIABLES
    \* ---- Environment (interpreter.rs:17-19) and the history of its calls
    values,      \* Environment.values : HashMap<String, Value>
    calls,       \* history: the Environment calls made so far, with arguments and results
    \* ---- Interpreter::interpret (interpreter.rs:63-69)
    statments,   \* the Vec<Stmt> handed to interpret
    idx,         \* position of the for loop in statments (1-based)
    output,      \* the lines written to standard output so far
    log,         \* history: per executed statement, the environment before and the result
    istate,      \* "idle" | "running" | "done" | "panicked"
    \* ---- Parser (parser.rs:48-52) and Parser::parse's locals
    tokens,      \* Parser.tokens
    position,    \* Parser.position (0-based index into tokens)
    errors,      \* Parser.errors
    statements,  \* the local Vec<Stmt> of parse
    pstate,      \* "idle" | "parsing" | "returned" | "crashed"
    parseResult, \* the ParseResult returned by parse, <<>> until it returns
    plog,         \* history: per call of declaration, where it started and ended
    \* ---- run (main.rs:58-76) and its Scanner (scanner.rs:4-11)
    scanner,     \* the Scanner: code, tokens, start, current, line, had_error
    rstate       \* where run stands: "idle" | "scanning" | "scanned" | "parsing" | "done" | "panicked"

envVars == <<values, calls>>
interpVars == <<statments, idx, output, log, istate>>
parserVars == <<tokens, position, errors, statements, pstate, parseResult, plog>>
runVars == <<scanner, rstate>>
vars == <<values, calls, statments, idx, output, log, istate,
          tokens, position, errors, statements, pstate, parseResult, plog,
          scanner, rstate>>

-----------------------------------------------------------------------------
(* Option<T> *)
None == <<>>
Some(x) == <<x>>
IsSome(o) == Len(o) = 1
Unwrap(o) == o[1]

-----------------------------------------------------------------------------
(***************************************************************************)
(* Value (value.rs).  Number(f64) is modelled by an exact fraction         *)
(* num/den with den > 0 in lowest terms; den = 0 stands for the IEEE       *)
(* specials: num = 1 is +inf, num = -1 is -inf, num = 0 is NaN.            *)
(***************************************************************************)
Abs(n) == IF n < 0 THEN -n ELSE n

Max(S) == CHOOSE x \in S : \A y \in S : y <= x

RECURSIVE Gcd(_, _)
Gcd(a, b) == IF b = 0 THEN a ELSE Gcd(b, a % b)

Sign(n) == IF n > 0 THEN 1 ELSE IF n < 0 THEN -1 ELSE 0

F64(n, d) ==
    IF d = 0 THEN [num |-> Sign(n), den |-> 0]
    ELSE LET g == Gcd(Abs(n), Abs(d))
             s == IF d < 0 THEN -1 ELSE 1
         IN  [num |-> (s * n) \div g, den |-> (s * d) \div g]

IsNaN(x) == x.den = 0 /\ x.num = 0

\* l + r, l - r, l * r, l / r on f64
F64Add(l, r) ==
    IF l.den = 0 /\ r.den = 0
    THEN (IF l.num = r.num THEN l ELSE F64(0, 0))
    ELSE IF l.den = 0 THEN l
    ELSE IF r.den = 0 THEN r
    ELSE F64(l.num * r.den + r.num * l.den, l.den * r.den)

F64Neg(x) == [num |-> -x.num, den |-> x.den]

F64Sub(l, r) == F64Add(l, F64Neg(r))

F64Mul(l, r) ==
    IF l.den = 0 \/ r.den = 0
    THEN F64(Sign(l.num) * Sign(r.num), 0)
    ELSE F64(l.num * r.num, l.den * r.den)

F64Div(l, r) ==
    IF l.den = 0 /\ r.den = 0 THEN F64(0, 0)
    ELSE IF l.den = 0 THEN F64(l.num * (IF r.num < 0 THEN -1 ELSE 1), 0)
    ELSE IF r.den = 0 THEN F64(0, 1)
    ELSE F64(l.num * r.den, l.den * r.num)

\* l == r and l < r on f64: every comparison with NaN is false
F64Eq(l, r) == ~IsNaN(l) /\ ~IsNaN(r) /\ l = r

F64Lt(l, r) ==
    /\ ~IsNaN(l) /\ ~IsNaN(r)
    /\ IF l.den = 0 /\ r.den = 0 THEN l.num < r.num
       ELSE IF l.den = 0 THEN l.num < 0
       ELSE IF r.den = 0 THEN r.num > 0
       ELSE l.num * r.den < r.num * l.den

Boolean(b) == [kind |-> "Boolean", b |-> b]
Nil == [kind |-> "Nil"]
Number(x) == [kind |-> "Number", n |-> x]
String(s) == [kind |-> "String", s |-> s]

Num(i) == Number(F64(i, 1))

\* impl PartialEq for Value
ValueEq(s, o) ==
    IF s.kind = "Boolean" /\ o.kind = "Boolean" THEN s.b = o.b
    ELSE IF s.kind = "Nil" /\ o.kind = "Nil" THEN TRUE
    ELSE IF s.kind = "Number" /\ o.kind = "Number" THEN F64Eq(s.n, o.n)
    ELSE IF s.kind = "String" /\ o.kind = "String" THEN s.s = o.s
    ELSE FALSE

-----------------------------------------------------------------------------
(* Text of an integer, as format!("{n}") writes it *)
Digit(d) == CASE d = 0 -> "0" [] d = 1 -> "1" [] d = 2 -> "2" [] d = 3 -> "3"
              [] d = 4 -> "4" [] d = 5 -> "5" [] d = 6 -> "6" [] d = 7 -> "7"
              [] d = 8 -> "8" [] d = 9 -> "9"

RECURSIVE NatText(_)
NatText(n) == IF n < 10 THEN <<Digit(n)>> ELSE NatText(n \div 10) \o <<Digit(n % 10)>>

IntText(i) == IF i < 0 THEN <<"-">> \o NatText(-i) ELSE NatText(i)

\* the fractional digits of r/d (0 <= r < d), at most k of them, trailing zeros dropped
RECURSIVE FracText(_, _, _)
FracText(r, d, k) ==
    IF r = 0 \/ k = 0 THEN <<>>
    ELSE <<Digit((r * 10) \div d)>> \o FracText((r * 10) % d, d, k - 1)

\* the number of fractional digits Display writes for a value that has no short form
FracDigits == 16

\* impl fmt::Display for Value
Display(v) ==
    CASE v.kind = "Boolean" -> (IF v.b THEN <<"t", "r", "u", "e">> ELSE <<"f", "a", "l", "s", "e">>)
      [] v.kind = "Nil" -> <<"n", "i", "l">>
      [] v.kind = "String" -> v.s
      [] v.kind = "Number" ->
            IF v.n.den = 0
            THEN (CASE v.n.num = 1 -> <<"i", "n", "f">>
                    [] v.n.num = -1 -> <<"-", "i", "n", "f">>
                    [] OTHER -> <<"N", "a", "N">>)
            ELSE IF v.n.den = 1 THEN IntText(v.n.num)
            ELSE (IF v.n.num < 0 THEN <<"-">> ELSE <<>>)
                 \o NatText(Abs(v.n.num) \div v.n.den) \o <<".">>
                 \o FracText(Abs(v.n.num) % v.n.den, v.n.den, FracDigits)

-----------------------------------------------------------------------------
(* Token (token.rs:115-153) *)
Token(t_type, lexeme, literal, line) ==
    [token_type |-> t_type, lexeme |-> lexeme, literal |-> literal, line |-> line]

\* an IDENTIFIER token as the scanner builds it: the literal repeats the lexeme
Ident(name, line) == Token("IDENTIFIER", name, Some(name), line)

-----------------------------------------------------------------------------
(* Result<_, interpreter::Error> *)
Ok(v) == [status |-> "Ok", val |-> v]
Unit == [kind |-> "Unit"]
Err(e) == [status |-> "Err", err |-> e]

\* Error::Runtime { message, line }; the message is a fixed text followed by
\* an interpolated lexeme (empty when the message interpolates nothing)
Runtime(text, arg, line) == [kind |-> "Runtime", message |-> text, arg |-> arg, line |-> line]

-----------------------------------------------------------------------------
(* Environment (interpreter.rs:21-42); vals is the HashMap as a function *)
Bound(vals) == DOMAIN vals

EnvDefineNoOverwrite(vals, name, value) ==
    IF name \in DOMAIN vals THEN vals
    ELSE [n \in DOMAIN vals \cup {name} |-> IF n = name THEN value ELSE vals[n]]

EnvDefine(vals, name, value) ==
    [n \in DOMAIN vals \cup {name} |-> IF n = name THEN value ELSE vals[n]]

EnvGetLineZero(vals, token) ==
    IF token.lexeme \in DOMAIN vals
    THEN Ok(vals[token.lexeme])
    ELSE Err(Runtime("Undefined varliable ", token.lexeme, 0))

EnvGet(vals, token) ==
    IF token.lexeme \in DOMAIN vals
    THEN Ok(vals[token.lexeme])
    ELSE Err(Runtime("Undefined varliable ", token.lexeme, token.line))

EnvAssignCreates(vals, name, value) ==
    [res |-> Ok(Unit), values |-> EnvDefine(vals, name.lexeme, value)]

\* the Result of assign together with the map it leaves behind
EnvAssign(vals, name, value) ==
    LET got == EnvGet(vals, name)
    IN  IF got.status = "Ok"
        THEN [res |-> Ok(Unit), values |-> EnvDefine(vals, name.lexeme, value)]
        ELSE [res |-> got, values |-> vals]

-----------------------------------------------------------------------------
(***************************************************************************)
(* Expr / ExprKind and Stmt (expression.rs:16-64).  Expr.id, a random      *)
(* Uuid that evaluation never reads, is left out.                          *)
(***************************************************************************)
Literal(value) == [kind |-> "Literal", value |-> value]
Grouping(inner) == [kind |-> "Grouping", inner |-> inner]
Unary(operator, right) == [kind |-> "Unary", operator |-> operator, right |-> right]
Binary(left, operator, right) ==
    [kind |-> "Binary", left |-> left, operator |-> operator, right |-> right]
Variable(name) == [kind |-> "Variable", name |-> name]
AssignExpr(name, value) == [kind |-> "Assign", name |-> name, value |-> value]

ExpressionStmt(expression) == [kind |-> "Expression", expression |-> expression]
PrintStmt(expression) == [kind |-> "Print", expression |-> expression]
VarStmt(name, initializer) == [kind |-> "Var", name |-> name, initializer |-> initializer]

-----------------------------------------------------------------------------
(***************************************************************************)
(* Interpreter::evaluate (interpreter.rs:107-235).  The environment sits   *)
(* behind Rc<RefCell<..>>, so what an evaluation wrote stays written when  *)
(* it later fails: every result carries the map it leaves behind.          *)
(* A panic (unwrap of None, todo!(), unreachable!()) is the status Panic.  *)
(***************************************************************************)
EOk(v, vals) == [status |-> "Ok", val |-> v, values |-> vals]
EErr(e, vals) == [status |-> "Err", err |-> e, values |-> vals]
EPanic(vals) == [status |-> "Panic", values |-> vals]

NumbersErrLineZero(operator) == Err(Runtime("Operands must be numbers", <<>>, 0))

NumbersErr(operator) == Err(Runtime("Operands must be numbers", <<>>, operator.line))

PlusOpCoercing(operator, l, r) ==
    IF l.kind = "Number" /\ r.kind = "Number" THEN Ok(Number(F64Add(l.n, r.n)))
    ELSE IF l.kind = "String" THEN Ok(String(l.s \o Display(r)))
    ELSE Err(Runtime("Operands must be two numbers or two strings", <<>>, operator.line))

\* the arm TokenType::PLUS (interpreter.rs:148-155)
PlusOp(operator, l, r) ==
    IF l.kind = "Number" /\ r.kind = "Number" THEN Ok(Number(F64Add(l.n, r.n)))
    ELSE IF l.kind = "String" /\ r.kind = "String" THEN Ok(String(l.s \o r.s))
    ELSE Err(Runtime("Operands must be two numbers or two strings", <<>>, operator.line))

\* the match on operator.token_type of the Binary arm (interpreter.rs:126-191)
BinaryOp(operator, l, r) ==
    LET nums == l.kind = "Number" /\ r.kind = "Number"
        t == operator.token_type
    IN  CASE t = "MINUS" ->
               IF nums THEN Ok(Number(F64Sub(l.n, r.n))) ELSE NumbersErr(operator)
          [] t = "SLASH" ->
               IF nums THEN Ok(Number(F64Div(l.n, r.n))) ELSE NumbersErr(operator)
          [] t = "STAR" ->
               IF nums THEN Ok(Number(F64Mul(l.n, r.n))) ELSE NumbersErr(operator)
          [] t = "PLUS" -> PlusOp(operator, l, r)
          [] t = "GREATER" ->
               IF nums THEN Ok(Boolean(F64Lt(r.n, l.n))) ELSE NumbersErr(operator)
          [] t = "GreaterEqual" ->
               IF nums THEN Ok(Boolean(F64Lt(r.n, l.n) \/ F64Eq(l.n, r.n)))
               ELSE NumbersErr(operator)
          [] t = "LESS" ->
               IF nums THEN Ok(Boolean(F64Lt(l.n, r.n))) ELSE NumbersErr(operator)
          [] t = "LessEqual" ->
               IF nums THEN Ok(Boolean(F64Lt(l.n, r.n) \/ F64Eq(l.n, r.n)))
               ELSE NumbersErr(operator)
          [] t = "BangEqual" -> Ok(Boolean(~ValueEq(l, r)))
          [] t = "EqualEqual" -> Ok(Boolean(ValueEq(l, r)))
          [] OTHER -> [status |-> "Panic"]

UnaryOpTruthy(operator, result) ==
    LET t == operator.token_type
    IN  CASE t = "MINUS" ->
               IF result.kind = "Number" THEN Ok(Number(F64Neg(result.n)))
               ELSE Err(Runtime("Operand must be a number", <<>>, operator.line))
          [] t = "BANG" ->
               IF result.kind = "Boolean" THEN Ok(Boolean(~result.b))
               ELSE Ok(Boolean(result.kind = "Nil"))
          [] OTHER -> [status |-> "Panic"]

\* the match on operator.token_type of the Unary arm (interpreter.rs:214-231)
UnaryOp(operator, result) ==
    LET t == operator.token_type
    IN  CASE t = "MINUS" ->
               IF result.kind = "Number" THEN Ok(Number(F64Neg(result.n)))
               ELSE Err(Runtime("Operand must be a number", <<>>, operator.line))
          [] t = "BANG" ->
               IF result.kind = "Boolean" THEN Ok(Boolean(~result.b))
               ELSE IF result.kind = "Nil" THEN Ok(Boolean(TRUE))
               ELSE Err(Runtime("Operand must be a boolean", <<>>, operator.line))
          [] OTHER -> [status |-> "Panic"]

\* a Result computed without touching the environment, with the map vals
WithEnv(res, vals) ==
    CASE res.status = "Ok" -> EOk(res.val, vals)
      [] res.status = "Err" -> EErr(res.err, vals)
      [] OTHER -> EPanic(vals)

\* the Assign arm whose own value is Nil instead of the assigned value
AssignArmYieldsNil(name, rhs) ==
    IF rhs.status # "Ok" THEN rhs
    ELSE EOk(Nil, EnvAssign(rhs.values, name, rhs.val).values)

\* the Assign arm (interpreter.rs:110-118) once the right-hand side gave rhs:
\* `let _ =` drops the Result of assign
AssignArm(name, rhs) ==
    IF rhs.status # "Ok" THEN rhs
    ELSE EOk(rhs.val, EnvAssign(rhs.values, name, rhs.val).values)

RECURSIVE Evaluate(_, _)

\* a Binary arm that evaluates its right operand first
BinaryArmRightFirst(vals, expr) ==
    LET right_result == Evaluate(vals, expr.right)
    IN  IF right_result.status # "Ok" THEN right_result
        ELSE LET left_result == Evaluate(right_result.values, expr.left)
             IN  IF left_result.status # "Ok" THEN left_result
                 ELSE WithEnv(BinaryOp(expr.operator, left_result.val,
                                       right_result.val),
                              left_result.values)

\* the Binary arm (interpreter.rs:119-192): `?` on the left operand, then
\* `?` on the right operand, then the match on the operator
BinaryArm(vals, expr) ==
    LET left_result == Evaluate(vals, expr.left)
    IN  IF left_result.status # "Ok" THEN left_result
        ELSE LET right_result == Evaluate(left_result.values, expr.right)
             IN  IF right_result.status # "Ok" THEN right_result
                 ELSE WithEnv(BinaryOp(expr.operator, left_result.val,
                                       right_result.val),
                              right_result.values)

Evaluate(vals, expr) ==
    CASE expr.kind = "Literal" ->
            IF IsSome(expr.value) THEN EOk(Unwrap(expr.value), vals) ELSE EPanic(vals)
      [] expr.kind = "Assign" ->
            AssignArm(expr.name, Evaluate(vals, expr.value))
      [] expr.kind = "Binary" -> BinaryArm(vals, expr)
      [] expr.kind = "Grouping" -> Evaluate(vals, expr.inner)
      [] expr.kind = "Unary" ->
            LET result == Evaluate(vals, expr.right)
            IN  IF result.status # "Ok" THEN result
                ELSE WithEnv(UnaryOp(expr.operator, result.val), result.values)
      [] expr.kind = "Variable" -> WithEnv(EnvGet(vals, expr.name), vals)
      \* Call, Get, Logical, Set, Super, This: todo!()
      [] OTHER -> EPanic(vals)

-----------------------------------------------------------------------------
(***************************************************************************)
(* Interpreter::execute (interpreter.rs:71-105): the Result, the map left  *)
(* behind and the line println! wrote, if any.                             *)
(***************************************************************************)
XOk(vals, printed) == [status |-> "Ok", values |-> vals, printed |-> printed]
XFail(r) ==
    IF r.status = "Err"
    THEN [status |-> "Err", err |-> r.err, values |-> r.values, printed |-> None]
    ELSE [status |-> "Panic", values |-> r.values, printed |-> None]

\* a Var statement that defines Nil even when it has an initializer
VarValueIgnoresInitializer(vals, initializer) == EOk(Nil, vals)

\* the value a Var statement binds (interpreter.rs:81-85)
VarValue(vals, initializer) ==
    IF IsSome(initializer) THEN Evaluate(vals, Unwrap(initializer)) ELSE EOk(Nil, vals)

\* a Var arm that defines the name as Nil when its initializer failed
VarArmDefinesOnError(name, value) ==
    IF value.status = "Panic" THEN XFail(value)
    ELSE IF value.status = "Err"
    THEN XFail(EErr(value.err, EnvDefine(value.values, name.lexeme, Nil)))
    ELSE XOk(EnvDefine(value.values, name.lexeme, value.val), None)

\* the Var arm (interpreter.rs:80-88) once the initializer gave value: `?`
\* returns its error before define is reached
VarArm(name, value) ==
    IF value.status # "Ok" THEN XFail(value)
    ELSE XOk(EnvDefine(value.values, name.lexeme, value.val), None)

Execute(vals, stmt) ==
    CASE stmt.kind = "Expression" ->
            LET r == Evaluate(vals, stmt.expression)
            IN  IF r.status # "Ok" THEN XFail(r) ELSE XOk(r.values, None)
      [] stmt.kind = "Print" ->
            LET value == Evaluate(vals, stmt.expression)
            IN  IF value.status # "Ok" THEN XFail(value)
                ELSE XOk(value.values, Some(Display(value.val)))
      [] stmt.kind = "Var" -> VarArm(stmt.name, VarValue(vals, stmt.initializer))
      \* Block, Class, Function, If, Return, While: todo!()
      [] OTHER -> XFail(EPanic(vals))

-----------------------------------------------------------------------------
(***************************************************************************)
(* Value::from_token (value.rs:39-50).  str::parse::<f64> is modelled on   *)
(* the texts the scanner hands over, digits with at most one `.`; any      *)
(* other text, and a missing literal, is the panic of unwrap.              *)
(***************************************************************************)
DigitValue(c) == CASE c = "0" -> 0 [] c = "1" -> 1 [] c = "2" -> 2 [] c = "3" -> 3
                   [] c = "4" -> 4 [] c = "5" -> 5 [] c = "6" -> 6 [] c = "7" -> 7
                   [] c = "8" -> 8 [] c = "9" -> 9 [] OTHER -> -1

\* the digits of text read as one whole number, its `.` skipped
RECURSIVE DigitsValue(_)
DigitsValue(text) ==
    IF text = <<>> THEN 0
    ELSE LET c == text[Len(text)]
             rest == DigitsValue(SubSeq(text, 1, Len(text) - 1))
         IN  IF c = "." THEN rest ELSE rest * 10 + DigitValue(c)

RECURSIVE Pow10(_)
Pow10(k) == IF k = 0 THEN 1 ELSE 10 * Pow10(k - 1)

ParseF64(text) ==
    LET dots == {i \in 1..Len(text) : text[i] = "."}
        digits == {i \in 1..Len(text) : DigitValue(text[i]) >= 0}
    IN  IF digits = {} \/ Cardinality(dots) > 1 \/ dots \cup digits # 1..Len(text)
        THEN None
        ELSE Some(F64(DigitsValue(text),
                      IF dots = {} THEN 1 ELSE Pow10(Len(text) - Max(dots))))

\* None stands for the panic
ValueFromToken(token) ==
    CASE token.token_type = "FALSE" -> Some(Boolean(FALSE))
      [] token.token_type = "TRUE" -> Some(Boolean(TRUE))
      [] token.token_type = "NIL" -> Some(Nil)
      [] token.token_type = "NUMBER" ->
            IF IsSome(token.literal) /\ IsSome(ParseF64(Unwrap(token.literal)))
            THEN Some(Number(Unwrap(ParseF64(Unwrap(token.literal)))))
            ELSE None
      [] token.token_type = "STRING" ->
            IF IsSome(token.literal) THEN Some(String(Unwrap(token.literal))) ELSE None
      [] OTHER -> None

-----------------------------------------------------------------------------
(***************************************************************************)
(* Parser (parser.rs).  position is the 0-based index of the code, so the  *)
(* token at position p is toks[p + 1].  Every grammar method is an         *)
(* operator from the tokens and the position it starts at to its Result    *)
(* and the position it leaves.  nest is the room left on the call stack    *)
(* for nested primary -> expression calls; a call chain that needs more    *)
(* ends the process (status Crash), as does an index out of range.         *)
(***************************************************************************)
POk(v, pos) == [status |-> "Ok", val |-> v, pos |-> pos]
PErr(e, pos) == [status |-> "Err", err |-> e, pos |-> pos]
PCrash(why, pos) == [status |-> "Crash", why |-> why, pos |-> pos]

\* Parser::error (parser.rs:183-195): the text is "{message} at end" for EOF
\* and "line: {line} at {lexeme}, {message}" otherwise
ParseErrorCustom(token, message) ==
    IF token.token_type = "EOF"
    THEN [kind |-> "ParseErrorCustom", message |-> message, at_end |-> TRUE]
    ELSE [kind |-> "ParseErrorCustom", message |-> message, at_end |-> FALSE,
          line |-> token.line, lexeme |-> token.lexeme]

ParseErrorToken(token, message) ==
    [kind |-> "ParseErrorToken", token |-> token, message |-> message]

Peek(toks, pos) == toks[pos + 1]
Previous(toks, pos) == toks[pos]
IsAtEnd(toks, pos) == Peek(toks, pos).token_type = "EOF"
Check(toks, pos, token_type) ==
    IF IsAtEnd(toks, pos) THEN FALSE ELSE Peek(toks, pos).token_type = token_type

\* match_token: whether one of token_types is next; the caller then stands at pos + 1
MatchToken(toks, pos, token_types) == \E t \in token_types : Check(toks, pos, t)

\* the position advance leaves; it then returns previous()
Advance(toks, pos) == IF ~IsAtEnd(toks, pos) THEN pos + 1 ELSE pos

Consume(toks, pos, token_type, message) ==
    IF Check(toks, pos, token_type)
    THEN POk(Previous(toks, Advance(toks, pos)), Advance(toks, pos))
    ELSE PErr(ParseErrorCustom(Peek(toks, pos), message), pos)

\* the `?` operator: an Err (or a crash) of r is the result, otherwise Next(r) is
Try(r, Next(_)) == IF r.status # "Ok" THEN r ELSE Next(r)

RECURSIVE Expression(_, _, _)
RECURSIVE Assignment(_, _, _)
RECURSIVE Equality(_, _, _)
RECURSIVE EqualityLoop(_, _, _, _)
RECURSIVE Comparison(_, _, _)
RECURSIVE ComparisonLoop(_, _, _, _)
RECURSIVE Term(_, _, _)
RECURSIVE TermLoop(_, _, _, _)
RECURSIVE Factor(_, _, _)
RECURSIVE FactorLoop(_, _, _, _)
RECURSIVE UnaryP(_, _, _)
RECURSIVE Primary(_, _, _)

\* the match on token.token_type of primary (parser.rs:336-352); token is
\* what advance returned and p the position it left
PrimaryOf(toks, token, p, nest) ==
    CASE token.token_type \in {"FALSE", "TRUE", "NIL", "NUMBER", "STRING"} ->
           IF IsSome(ValueFromToken(token))
           THEN POk(Literal(ValueFromToken(token)), p)
           ELSE PCrash("unwrap", p)
      [] token.token_type = "LeftParen" ->
           IF nest = 0 THEN PCrash("stack overflow", p)
           ELSE Try(Expression(toks, p, nest - 1),
                    LAMBDA expr :
                        Try(Consume(toks, expr.pos, "RightParen", "Expect ')' after expression."),
                            LAMBDA close : POk(Grouping(expr.val), close.pos)))
      [] token.token_type = "IDENTIFIER" -> POk(Variable(Previous(toks, p)), p)
      [] OTHER ->
           PErr(ParseErrorToken(Peek(toks, p), "Did not find a matching primary token"), p)

\* primary (parser.rs:334-353); previous() at position 0 is out of range
Primary(toks, pos, nest) ==
    IF Advance(toks, pos) = 0 THEN PCrash("index out of range", 0)
    ELSE PrimaryOf(toks, Previous(toks, Advance(toks, pos)), Advance(toks, pos), nest)

\* unary (parser.rs:321-331): the Unary node is built and dropped, and
\* primary is called in both branches
UnaryP(toks, pos, nest) ==
    IF MatchToken(toks, pos, {"BANG", "MINUS"})
    THEN Try(UnaryP(toks, pos + 1, nest), LAMBDA right : Primary(toks, right.pos, nest))
    ELSE Primary(toks, pos, nest)

FactorLoopWithPlus(toks, expr, pos, nest) ==
    IF MatchToken(toks, pos, {"STAR", "SLASH", "PLUS"})
    THEN Try(UnaryP(toks, pos + 1, nest),
             LAMBDA right : FactorLoop(toks, Binary(expr, Previous(toks, pos + 1), right.val),
                                       right.pos, nest))
    ELSE POk(expr, pos)

\* factor (parser.rs:303-318)
FactorLoop(toks, expr, pos, nest) ==
    IF MatchToken(toks, pos, {"STAR", "SLASH"})
    THEN Try(UnaryP(toks, pos + 1, nest),
             LAMBDA right : FactorLoop(toks, Binary(expr, Previous(toks, pos + 1), right.val),
                                       right.pos, nest))
    ELSE POk(expr, pos)

Factor(toks, pos, nest) ==
    Try(UnaryP(toks, pos, nest), LAMBDA expr : FactorLoop(toks, expr.val, expr.pos, nest))

TermLoopToTheRight(toks, expr, pos, nest) ==
    IF MatchToken(toks, pos, {"MINUS", "PLUS"})
    THEN Try(Term(toks, pos + 1, nest),
             LAMBDA right : POk(Binary(expr, Previous(toks, pos + 1), right.val), right.pos))
    ELSE POk(expr, pos)

\* term (parser.rs:285-300)
TermLoop(toks, expr, pos, nest) ==
    IF MatchToken(toks, pos, {"MINUS", "PLUS"})
    THEN Try(Factor(toks, pos + 1, nest),
             LAMBDA right : TermLoop(toks, Binary(expr, Previous(toks, pos + 1), right.val),
                                     right.pos, nest))
    ELSE POk(expr, pos)

Term(toks, pos, nest) ==
    Try(Factor(toks, pos, nest), LAMBDA expr : TermLoop(toks, expr.val, expr.pos, nest))

\* comparison (parser.rs:262-282)
ComparisonLoop(toks, expr, pos, nest) ==
    IF MatchToken(toks, pos, {"GREATER", "GreaterEqual", "LESS", "LessEqual"})
    THEN Try(Term(toks, pos + 1, nest),
             LAMBDA rightt :
                 ComparisonLoop(toks, Binary(expr, Previous(toks, pos + 1), rightt.val),
                                rightt.pos, nest))
    ELSE POk(expr, pos)

Comparison(toks, pos, nest) ==
    Try(Term(toks, pos, nest), LAMBDA expr : ComparisonLoop(toks, expr.val, expr.pos, nest))

\* equality (parser.rs:244-259)
EqualityLoop(toks, expr, pos, nest) ==
    IF MatchToken(toks, pos, {"BangEqual", "EqualEqual"})
    THEN Try(Comparison(toks, pos + 1, nest),
             LAMBDA right :
                 EqualityLoop(toks, Binary(expr, Previous(toks, pos + 1), right.val),
                              right.pos, nest))
    ELSE POk(expr, pos)

Equality(toks, pos, nest) ==
    Try(Comparison(toks, pos, nest), LAMBDA expr : EqualityLoop(toks, expr.val, expr.pos, nest))

AssignmentOfAnyTarget(toks, expr, pos, nest) ==
    IF MatchToken(toks, pos, {"EQUAL"})
    THEN Try(Assignment(toks, pos + 1, nest),
             LAMBDA value :
                 IF expr.kind = "Variable"
                 THEN POk(AssignExpr(expr.name, value.val), value.pos)
                 ELSE POk(value.val, value.pos))
    ELSE POk(expr, pos)

\* the part of assignment after `let expr = self.equality()?` (parser.rs:228-240)
AssignmentOf(toks, expr, pos, nest) ==
    IF MatchToken(toks, pos, {"EQUAL"})
    THEN Try(Assignment(toks, pos + 1, nest),
             LAMBDA value :
                 IF expr.kind = "Variable"
                 THEN POk(AssignExpr(expr.name, value.val), value.pos)
                 ELSE PErr(ParseErrorCustom(Previous(toks, pos + 1),
                                            "Invalid Assignment Target."),
                           value.pos))
    ELSE POk(expr, pos)

\* assignment (parser.rs:225-241)
Assignment(toks, pos, nest) ==
    Try(Equality(toks, pos, nest), LAMBDA expr : AssignmentOf(toks, expr.val, expr.pos, nest))

\* expression (parser.rs:221-223)
Expression(toks, pos, nest) == Assignment(toks, pos, nest)

\* print_statement and expression_statement (parser.rs:208-218); pos is
\* past the `print` that statement matched
PrintStatement(toks, pos, nest) ==
    Try(Expression(toks, pos, nest),
        LAMBDA value :
            Try(Consume(toks, value.pos, "SEMICOLON", "Expect ';' after value."),
                LAMBDA semi : POk(PrintStmt(value.val), semi.pos)))

ExpressionStatement(toks, pos, nest) ==
    Try(Expression(toks, pos, nest),
        LAMBDA expr :
            Try(Consume(toks, expr.pos, "SEMICOLON", "Expect ';' after value."),
                LAMBDA semi : POk(ExpressionStmt(expr.val), semi.pos)))

\* statement (parser.rs:201-206)
Statement(toks, pos, nest) ==
    IF MatchToken(toks, pos, {"PRINT"})
    THEN PrintStatement(toks, pos + 1, nest)
    ELSE ExpressionStatement(toks, pos, nest)

\* the initializer of var_declaration (parser.rs:98-101): an Option<Expr>
Initializer(toks, pos, nest) ==
    IF MatchToken(toks, pos, {"EQUAL"})
    THEN Try(Expression(toks, pos + 1, nest), LAMBDA e : POk(Some(e.val), e.pos))
    ELSE POk(None, pos)

\* var_declaration (parser.rs:95-108); pos is past the `var` that declaration matched
VarDeclaration(toks, pos, nest) ==
    Try(Consume(toks, pos, "IDENTIFIER", "Expect variable name."),
        LAMBDA name :
            Try(Initializer(toks, name.pos, nest),
                LAMBDA initializer :
                    Try(Consume(toks, initializer.pos, "SEMICOLON",
                                "Expect ';' after variable decleration"),
                        LAMBDA semi : POk(VarStmt(name.val, initializer.val), semi.pos))))

StatementStart == {"CLASS", "FUN", "VAR", "FOR", "IF", "WHILE", "PRINT", "RETURN"}

\* the while loop of synchronize (parser.rs:113-135)
RECURSIVE SynchronizeLoop(_, _)
SynchronizeLoop(toks, pos) ==
    IF IsAtEnd(toks, pos) THEN pos
    ELSE IF Previous(toks, pos).token_type = "SEMICOLON" THEN pos
    ELSE IF Peek(toks, pos).token_type \in StatementStart THEN pos
    ELSE SynchronizeLoop(toks, Advance(toks, pos))

\* synchronize (parser.rs:110-136): the position it leaves, -1 for the panic
\* of previous() at position 0
Synchronize(toks, pos) ==
    IF Advance(toks, pos) = 0 THEN -1 ELSE SynchronizeLoop(toks, Advance(toks, pos))

\* the match on res of declaration (parser.rs:85-92)
DeclarationOf(toks, res) ==
    CASE res.status = "Ok" ->
           [status |-> "Ok", stmt |-> Some(res.val), pushed |-> <<>>,
            raised |-> res.pos, pos |-> res.pos]
      [] res.status = "Err" ->
           IF Synchronize(toks, res.pos) < 0
           THEN [status |-> "Crash", stmt |-> None, pushed |-> <<res.err>>,
                 raised |-> res.pos, pos |-> res.pos]
           ELSE [status |-> "Err", stmt |-> None, pushed |-> <<res.err>>,
                 raised |-> res.pos, pos |-> Synchronize(toks, res.pos)]
      [] OTHER ->
           [status |-> "Crash", stmt |-> None, pushed |-> <<>>,
            raised |-> res.pos, pos |-> res.pos]

\* declaration (parser.rs:78-93): the Option<Stmt> it returns, the error it
\* pushed if any, the position where the error was raised and the position it leaves
Declaration(toks, pos, nest) ==
    DeclarationOf(toks, IF MatchToken(toks, pos, {"VAR"})
                        THEN VarDeclaration(toks, pos + 1, nest)
                        ELSE Statement(toks, pos, nest))

-----------------------------------------------------------------------------
(***************************************************************************)
(* The Environment alone: any sequence of define, assign and get calls on  *)
(* one Environment (the unit tests of interpreter.rs:494-539 drive it this *)
(* way).  calls records every call with the map before and after it.       *)
(***************************************************************************)
MaxCalls == 3

Names == {<<"a">>, <<"b">>}
EnvValues == {Nil, Num(1), String(<<"s">>)}
Lines == {0, 7}

\* Environment::default()
EmptyEnv == [n \in {} |-> Nil]

\* no run of main.rs is under way
RunIdle == scanner = <<>> /\ rstate = "idle"

InterpIdle ==
    /\ statments = <<>> /\ idx = 0 /\ output = <<>> /\ log = <<>> /\ istate = "idle"

ParserIdle ==
    /\ tokens = <<>> /\ position = 0 /\ errors = <<>> /\ statements = <<>>
    /\ pstate = "idle" /\ parseResult = <<>> /\ plog = <<>>

EnvInit ==
    /\ values = EmptyEnv
    /\ calls = <<>>
    /\ InterpIdle
    /\ ParserIdle
    /\ RunIdle

Define(name, value) ==
    /\ Len(calls) < MaxCalls
    /\ values' = EnvDefine(values, name, value)
    /\ calls' = Append(calls, [op |-> "define", name |-> name, line |-> 0, value |-> value,
                               res |-> Ok(Unit), before |-> values, after |-> values'])
    /\ UNCHANGED <<runVars, interpVars, parserVars>>

Assign(name, line, value) ==
    /\ Len(calls) < MaxCalls
    /\ LET r == EnvAssign(values, Ident(name, line), value)
       IN  /\ values' = r.values
           /\ calls' = Append(calls, [op |-> "assign", name |-> name, line |-> line,
                                      value |-> value, res |-> r.res,
                                      before |-> values, after |-> values'])
    /\ UNCHANGED <<runVars, interpVars, parserVars>>

Get(name, line) ==
    /\ Len(calls) < MaxCalls
    /\ calls' = Append(calls, [op |-> "get", name |-> name, line |-> line, value |-> Nil,
                               res |-> EnvGet(values, Ident(name, line)),
                               before |-> values, after |-> values])
    /\ UNCHANGED <<runVars, values, interpVars, parserVars>>

EnvNext ==
    \/ \E name \in Names, value \in EnvValues : Define(name, value)
    \/ \E name \in Names, line \in Lines, value \in EnvValues : Assign(name, line, value)
    \/ \E name \in Names, line \in Lines : Get(name, line)

SpecEnv == EnvInit /\ [][EnvNext]_vars

\* the names passed to define among the first k calls
DefinedNames(k) == {calls[i].name : i \in {j \in 1..k : calls[j].op = "define"}}

\* the calls among the first k that wrote name: a define, or an assign that returned Ok
Writes(name, k) ==
    {j \in 1..k : /\ calls[j].name = name
                  /\ \/ calls[j].op = "define"
                     \/ calls[j].op = "assign" /\ calls[j].res.status = "Ok"}

\* C1: the set of bound names is exactly the set of names passed to define;
\* an assign on a name without a binding creates none
C1_BoundIsDefined == Bound(values) = DefinedNames(Len(calls))

\* an assign was called on a name that no define had named, and a define happened too
C1_Witness ==
    \E k \in 1..Len(calls) :
        /\ calls[k].op = "assign"
        /\ calls[k].name \notin DefinedNames(k)
        /\ DefinedNames(Len(calls)) # {}

\* C2: get(name) returns the value of the most recent define or successful
\* assign for that name, both for every get that was called and for a get
\* on the environment as it is now
C2_GetReturnsLatestWrite ==
    /\ \A k \in 1..Len(calls) :
          (calls[k].op = "get" /\ Writes(calls[k].name, k) # {})
              => calls[k].res = Ok(calls[Max(Writes(calls[k].name, k))].value)
    /\ \A name \in Names, line \in Lines :
          Writes(name, Len(calls)) # {}
              => EnvGet(values, Ident(name, line))
                   = Ok(calls[Max(Writes(name, Len(calls)))].value)

\* a get returned the value of a write that had overwritten an earlier, different one
C2_Witness ==
    \E k \in 1..Len(calls) :
        /\ calls[k].op = "get"
        /\ calls[k].res.status = "Ok"
        /\ \E i, j \in Writes(calls[k].name, k) :
              i < j /\ calls[i].value # calls[j].value /\ calls[k].res.val = calls[j].value

\* C3: get and assign on a name never passed to define fail with the
\* Undefined-Variable runtime error carrying the line of the name token, and
\* leave the environment unchanged
C3_UndefinedFails ==
    \A k \in 1..Len(calls) :
        (calls[k].op \in {"get", "assign"} /\ calls[k].name \notin DefinedNames(k))
            => /\ calls[k].res = Err(Runtime("Undefined varliable ", calls[k].name, calls[k].line))
               /\ calls[k].after = calls[k].before

\* both a get and an assign failed on a never-defined name whose token is on a line other than 0
C3_Witness ==
    \E i, j \in 1..Len(calls) :
        /\ calls[i].op = "get" /\ calls[j].op = "assign"
        /\ calls[i].name \notin DefinedNames(i) /\ calls[j].name \notin DefinedNames(j)
        /\ calls[i].line # 0 /\ calls[j].line # 0
        /\ calls[i].res.status = "Err" /\ calls[j].res.status = "Err"

-----------------------------------------------------------------------------
(***************************************************************************)
(* Interpreter::interpret (interpreter.rs:63-69) on a statement list, one  *)
(* action per iteration of its for loop.  An output line is either the     *)
(* text of a print or the report "[Error]: {error}" of a runtime error.    *)
(***************************************************************************)
MaxStmts == 3

A1 == Ident(<<"a">>, 1)
B2 == Ident(<<"b">>, 2)
Minus3 == Token("MINUS", <<"-">>, None, 3)
Plus4 == Token("PLUS", <<"+">>, None, 4)
Lit(v) == Literal(Some(v))

StmtPool ==
    { VarStmt(A1, None),                                          \* var a;
      VarStmt(A1, Some(Lit(Num(7)))),                             \* var a = 7;
      VarStmt(B2, Some(Lit(String(<<"s">>)))),                    \* var b = "s";
      VarStmt(B2, Some(Binary(Variable(A1), Plus4, Lit(Num(1))))),\* var b = a + 1;
      ExpressionStmt(AssignExpr(A1, Lit(Num(1)))),                \* a = 1;
      ExpressionStmt(AssignExpr(A1, AssignExpr(B2, Lit(Num(3))))),\* a = b = 3;
      ExpressionStmt(AssignExpr(B2, Variable(A1))),               \* b = a;
      ExpressionStmt(Unary(Minus3, Lit(String(<<"s">>)))),        \* -"s";
      PrintStmt(Variable(A1)),                                    \* print a;
      PrintStmt(Variable(B2)),                                    \* print b;
      PrintStmt(AssignExpr(A1, Lit(Num(4)))) }                    \* print a = 4;

Programs == UNION {[1..n -> StmtPool] : n \in 1..MaxStmts}

PrintLine(text) == [stream |-> "print", text |-> text]
ErrorLine(error) == [stream |-> "[Error]: ", error |-> error]

\* a loop that ends at the first runtime error
AfterStatementAborting(i, status, n) == IF status = "Ok" THEN i + 1 ELSE n + 1

\* where the for loop stands after the statement at i: `if let Err` swallows the error
AfterStatement(i, status, n) == i + 1

InterpInit ==
    /\ statments \in Programs
    /\ values = EmptyEnv
    /\ idx = 1
    /\ output = <<>>
    /\ log = <<>>
    /\ istate = "running"
    /\ calls = <<>>
    /\ ParserIdle
    /\ RunIdle

InterpretStep ==
    /\ istate = "running"
    /\ idx <= Len(statments)
    /\ LET r == Execute(values, statments[idx])
       IN  /\ values' = r.values
           /\ output' = output
                          \o (IF IsSome(r.printed) THEN <<PrintLine(Unwrap(r.printed))>> ELSE <<>>)
                          \o (IF r.status = "Err" THEN <<ErrorLine(r.err)>> ELSE <<>>)
           /\ log' = Append(log, [at |-> idx, before |-> values, res |-> r])
           /\ istate' = IF r.status = "Panic" THEN "panicked" ELSE "running"
           /\ idx' = AfterStatement(idx, r.status, Len(statments))
    /\ UNCHANGED <<runVars, statments, calls, parserVars>>

InterpretReturn ==
    /\ istate = "running"
    /\ idx > Len(statments)
    /\ istate' = "done"
    /\ UNCHANGED <<runVars, values, calls, statments, idx, output, log, parserVars>>

InterpNext == InterpretStep \/ InterpretReturn

SpecInterp == InterpInit /\ [][InterpNext]_vars

\* the statement the k-th iteration executed, and whether it is an expression
\* or print statement whose expression is an Assign
StmtAt(k) == statments[log[k].at]
IsAssignStmt(st) == st.kind \in {"Expression", "Print"} /\ st.expression.kind = "Assign"

\* C4: evaluating an Assign whose target was never declared fails with the
\* Undefined-Variable runtime error, so the enclosing statement reports an error
C4_AssignUndeclaredFails ==
    \A k \in 1..Len(log) :
        (/\ IsAssignStmt(StmtAt(k))
         /\ StmtAt(k).expression.name.lexeme \notin Bound(log[k].before))
            => /\ log[k].res.status = "Err"
               /\ log[k].res.err.message = "Undefined varliable "

\* C5: a runtime error of one statement is caught and reported and every
\* later statement still runs, in order, on the same environment: when
\* interpret returns, each statement ran once on the map its predecessor left,
\* each error has its report, each successful print its line, and every name
\* a successful Var statement declared is bound
CountLines(stream) == Cardinality({i \in 1..Len(output) : output[i].stream = stream})
CountStatus(kinds, status) ==
    Cardinality({i \in 1..Len(log) : StmtAt(i).kind \in kinds /\ log[i].res.status = status})

C5_ErrorsDoNotStopInterpret ==
    istate = "done" =>
        /\ Len(log) = Len(statments)
        /\ \A i \in 1..Len(log) : log[i].at = i
        /\ \A i \in 2..Len(log) : log[i].before = log[i - 1].res.values
        /\ values = log[Len(log)].res.values
        /\ CountLines("[Error]: ") = CountStatus({"Expression", "Print", "Var"}, "Err")
        /\ CountLines("print") = CountStatus({"Print"}, "Ok")
        /\ \A i \in 1..Len(log) :
              (StmtAt(i).kind = "Var" /\ log[i].res.status = "Ok")
                  => StmtAt(i).name.lexeme \in Bound(values)

\* interpret returned after a statement failed between a declaration that took
\* effect before it and a print that took effect after it
C5_Witness ==
    /\ istate = "done"
    /\ \E i, j, k \in 1..Len(log) :
          /\ i < j /\ j < k
          /\ StmtAt(i).kind = "Var" /\ log[i].res.status = "Ok"
          /\ log[j].res.status = "Err"
          /\ StmtAt(k).kind = "Print" /\ log[k].res.status = "Ok"

\* C6: an Assign to a declared name whose right-hand side evaluates to v
\* returns v and leaves the name bound to v; in a = b = e with a and b
\* declared both end up bound to the value of e
C6_AssignYieldsAndBinds ==
    \A k \in 1..Len(log) :
        LET e == StmtAt(k).expression
            before == log[k].before
            rhs == Evaluate(before, e.value)
        IN  (/\ IsAssignStmt(StmtAt(k))
             /\ e.name.lexeme \in Bound(before)
             /\ rhs.status = "Ok")
                => /\ Evaluate(before, e).status = "Ok"
                   /\ Evaluate(before, e).val = rhs.val
                   /\ log[k].res.status = "Ok"
                   /\ log[k].res.values[e.name.lexeme] = rhs.val
                   /\ StmtAt(k).kind = "Print"
                         => log[k].res.printed = Some(Display(rhs.val))
                   /\ (e.value.kind = "Assign" /\ e.value.name.lexeme \in Bound(before))
                         => /\ log[k].res.values[e.value.name.lexeme] = rhs.val
                            /\ Evaluate(before, e.value.value).val = rhs.val

\* a = b = 3 ran with a and b declared and bound to other values, and left both at 3
C6_Witness ==
    \E k \in 1..Len(log) :
        /\ StmtAt(k) = ExpressionStmt(AssignExpr(A1, AssignExpr(B2, Lit(Num(3)))))
        /\ {<<"a">>, <<"b">>} \subseteq Bound(log[k].before)
        /\ log[k].before[<<"a">>] # Num(3) /\ log[k].before[<<"b">>] # Num(3)
        /\ log[k].res.values[<<"a">>] = Num(3) /\ log[k].res.values[<<"b">>] = Num(3)

\* C7: a Var statement binds the name to the value of its initializer, or to
\* Nil without one, whether or not the name was bound; get then returns it
C7_VarBinds ==
    \A k \in 1..Len(log) :
        LET st == StmtAt(k)
            after == log[k].res.values
        IN  st.kind = "Var" =>
              IF IsSome(st.initializer)
              THEN LET v == Evaluate(log[k].before, Unwrap(st.initializer))
                   IN  v.status = "Ok" =>
                         /\ log[k].res.status = "Ok"
                         /\ EnvGet(after, st.name) = Ok(v.val)
              ELSE /\ log[k].res.status = "Ok"
                   /\ EnvGet(after, st.name) = Ok(Nil)

\* a Var with an initializer and a Var without one each ran on a name that
\* was bound to a different value
C7_Witness ==
    \E i, j \in 1..Len(log) :
        /\ StmtAt(i).kind = "Var" /\ IsSome(StmtAt(i).initializer)
        /\ StmtAt(i).name.lexeme \in Bound(log[i].before)
        /\ log[i].res.status = "Ok"
        /\ log[i].before[StmtAt(i).name.lexeme] # log[i].res.values[StmtAt(i).name.lexeme]
        /\ StmtAt(j).kind = "Var" /\ ~IsSome(StmtAt(j).initializer)
        /\ StmtAt(j).name.lexeme \in Bound(log[j].before)
        /\ log[j].before[StmtAt(j).name.lexeme] # Nil

\* C30: a Var statement whose initializer fails with a runtime error returns
\* that error without calling define: the environment is the one the
\* initializer left, a name that had no binding still has none, and get and
\* assign on it fail with the undefined-variable error
C30_FailedVarDefinesNothing ==
    \A k \in 1..Len(log) :
        LET st == StmtAt(k)
            before == log[k].before
            after == log[k].res.values
        IN  (/\ st.kind = "Var"
             /\ IsSome(st.initializer)
             /\ Evaluate(before, Unwrap(st.initializer)).status = "Err")
                => /\ log[k].res.status = "Err"
                   /\ log[k].res.err = Evaluate(before, Unwrap(st.initializer)).err
                   /\ after = Evaluate(before, Unwrap(st.initializer)).values
                   /\ st.name.lexeme \notin Bound(before)
                         => /\ st.name.lexeme \notin Bound(after)
                            /\ EnvGet(after, st.name).status = "Err"
                            /\ EnvGet(after, st.name).err.message = "Undefined varliable "
                            /\ EnvAssign(after, st.name, Nil).res.status = "Err"
                            /\ EnvAssign(after, st.name, Nil).res.err.message
                                  = "Undefined varliable "
                            /\ EnvAssign(after, st.name, Nil).values = after
                            /\ (k < Len(log) /\ StmtAt(k + 1) = PrintStmt(Variable(B2))
                                    /\ st.name.lexeme = <<"b">>)
                                  => /\ log[k + 1].res.status = "Err"
                                     /\ log[k + 1].res.err.message = "Undefined varliable "

\* `var b = a + 1;` failed with a and b unbound, and the `print b;` after it
\* reported the undefined variable
C30_Witness ==
    \E k \in 1..Len(log) - 1 :
        /\ StmtAt(k) = VarStmt(B2, Some(Binary(Variable(A1), Plus4, Lit(Num(1)))))
        /\ <<"b">> \notin Bound(log[k].before)
        /\ log[k].res.status = "Err"
        /\ StmtAt(k + 1) = PrintStmt(Variable(B2))
        /\ log[k + 1].res.status = "Err"

-----------------------------------------------------------------------------
(* interpret on `var a = 0; var b = 0;` and one Binary expression statement *)
(* whose operands are literals, assignments, reads and failing expressions *)

C5 == Ident(<<"c">>, 5)

OrderOperands ==
    { Lit(Num(1)),                                  \* 1
      Lit(Boolean(TRUE)),                           \* true
      AssignExpr(A1, Lit(Num(1))),                  \* a = 1
      AssignExpr(A1, Lit(String(<<"s">>))),         \* a = "s"
      AssignExpr(B2, Lit(Boolean(TRUE))),           \* b = true
      AssignExpr(B2, Lit(Num(2))),                  \* b = 2
      Variable(A1),                                 \* a
      Variable(C5),                                 \* c, never declared
      Unary(Minus3, Lit(String(<<"s">>))) }         \* -"s"

OrderPrograms ==
    { << VarStmt(A1, Some(Lit(Num(0)))), VarStmt(B2, Some(Lit(Num(0)))),
         ExpressionStmt(Binary(l, operator, r)) >> :
        l \in OrderOperands, r \in OrderOperands, operator \in {Plus4, Minus3} }

\* Interpreter::new() and the entry of interpret
OrderInit ==
    /\ statments \in OrderPrograms
    /\ values = EmptyEnv
    /\ idx = 1
    /\ output = <<>>
    /\ log = <<>>
    /\ istate = "running"
    /\ calls = <<>>
    /\ ParserIdle
    /\ RunIdle

SpecOrder == OrderInit /\ [][InterpNext]_vars

\* the statement is an expression statement of a Binary expression
IsBinaryStmt(st) == st.kind = "Expression" /\ st.expression.kind = "Binary"

\* the names an operand assigns, and the value it assigns
Targets(operand) == IF operand.kind = "Assign" THEN {operand.name.lexeme} ELSE {}
Assigned(operand) == Unwrap(operand.value.value)

\* C29: a Binary expression evaluates its left operand first and its right
\* operand on the environment the left one left.  When the left operand
\* fails, its error is the result and nothing the right operand assigns has
\* changed; when the right operand fails, what the left one assigned stays;
\* when both succeed and the operator rejects their types, the error is the
\* operator's and what both operands assigned stays
C29_LeftBeforeRight ==
    \A k \in 1..Len(log) :
        IsBinaryStmt(StmtAt(k)) =>
            LET e == StmtAt(k).expression
                before == log[k].before
                res == log[k].res
                l == Evaluate(before, e.left)
                r == Evaluate(l.values, e.right)
                op == BinaryOp(e.operator, l.val, r.val)
            IN  CASE l.status = "Err" ->
                       /\ res.status = "Err"
                       /\ res.err = l.err
                       /\ res.values = l.values
                       /\ \A n \in Targets(e.right) : res.values[n] = before[n]
                  [] l.status = "Ok" /\ r.status = "Err" ->
                       /\ res.status = "Err"
                       /\ res.err = r.err
                       /\ res.values = r.values
                       /\ \A n \in Targets(e.left) : res.values[n] = Assigned(e.left)
                  [] l.status = "Ok" /\ r.status = "Ok" ->
                       /\ res.status = op.status
                       /\ op.status = "Err" => res.err = op.err
                       /\ res.values = r.values
                       /\ \A n \in Targets(e.right) : res.values[n] = Assigned(e.right)
                       /\ \A n \in Targets(e.left) \ Targets(e.right) :
                             res.values[n] = Assigned(e.left)
                       /\ (e.left.kind = "Assign" /\ e.right = Variable(e.left.name))
                             => r.val = Assigned(e.left)

\* interpret has returned after `(a = 1) + (b = true)` failed on the types of
\* its operands and left a at 1 and b at true, both 0 before
C29_Witness ==
    /\ istate = "done"
    /\ \E k \in 1..Len(log) :
          /\ StmtAt(k) = ExpressionStmt(Binary(AssignExpr(A1, Lit(Num(1))), Plus4,
                                               AssignExpr(B2, Lit(Boolean(TRUE)))))
          /\ log[k].res.status = "Err"
          /\ log[k].res.err.message = "Operands must be two numbers or two strings"
          /\ log[k].before[<<"a">>] = Num(0) /\ log[k].before[<<"b">>] = Num(0)
          /\ log[k].res.values[<<"a">>] = Num(1)
          /\ log[k].res.values[<<"b">>] = Boolean(TRUE)

-----------------------------------------------------------------------------
(***************************************************************************)
(* Parser::parse (parser.rs:63-76) on an EOF-terminated token sequence,    *)
(* one action per iteration of its while loop and one for its return.      *)
(* The token at index i of an input is on line i.                          *)
(***************************************************************************)
MaxTokens == 4
MaxNest == 5

\* token_type, lexeme and literal of the tokens the inputs are made of
TokenKinds ==
    { <<"NUMBER", <<"1">>, Some(<<"1">>)>>,
      <<"TRUE", <<"t", "r", "u", "e">>, None>>,
      <<"IDENTIFIER", <<"a">>, None>>,
      <<"LeftParen", <<"(">>, None>>,
      <<"RightParen", <<")">>, None>>,
      <<"MINUS", <<"-">>, None>>,
      <<"BANG", <<"!">>, None>>,
      <<"SEMICOLON", <<";">>, None>>,
      <<"EQUAL", <<"=">>, None>>,
      <<"PRINT", <<"p", "r", "i", "n", "t">>, None>>,
      <<"VAR", <<"v", "a", "r">>, None>> }

\* the EOF token; "NUL" stands for the character '\0' of its lexeme
EOFToken(line) == Token("EOF", <<"NUL">>, None, line)

\* the tokens of kinds, numbered by line, with the EOF token the scanner appends
TokensOf(kinds) ==
    [i \in 1..Len(kinds) + 1 |->
        IF i <= Len(kinds) THEN Token(kinds[i][1], kinds[i][2], kinds[i][3], i)
        ELSE EOFToken(i)]

\* the inputs of at most `most` tokens before the EOF token
TokenInputs(most) == {TokensOf(kinds) : kinds \in UNION {[1..n -> TokenKinds] : n \in 0..most}}

\* Parser::new(tokens) and the entry of parse
ParserInit ==
    /\ tokens \in TokenInputs(MaxTokens)
    /\ position = 0
    /\ errors = <<>>
    /\ statements = <<>>
    /\ pstate = "parsing"
    /\ parseResult = <<>>
    /\ plog = <<>>
    /\ values = EmptyEnv
    /\ calls = <<>>
    /\ InterpIdle
    /\ RunIdle

\* one iteration of `while !self.is_at_end()`: declaration, and the push of its statement
ParseDeclaration ==
    /\ pstate = "parsing"
    /\ ~IsAtEnd(tokens, position)
    /\ plog' = Append(plog, [from |-> position] @@ Declaration(tokens, position, MaxNest))
    /\ position' = plog'[Len(plog')].pos
    /\ errors' = errors \o plog'[Len(plog')].pushed
    /\ statements' = statements \o plog'[Len(plog')].stmt
    /\ pstate' = IF plog'[Len(plog')].status = "Crash" THEN "crashed" ELSE "parsing"
    /\ UNCHANGED <<runVars, tokens, parseResult, envVars, interpVars>>

ReturnedErrorLast(errs) == errs[Len(errs)]

\* the error parse returns (parser.rs:74): self.errors.borrow()[0]
ReturnedError(errs) == errs[1]

\* the end of parse: Ok(statements) if no error was recorded, else the first error
ParseReturn ==
    /\ pstate = "parsing"
    /\ IsAtEnd(tokens, position)
    /\ parseResult' = Some(IF errors = <<>> THEN Ok(statements) ELSE Err(ReturnedError(errors)))
    /\ pstate' = "returned"
    /\ UNCHANGED <<runVars, tokens, position, errors, statements, plog, envVars, interpVars>>

ParserNext == ParseDeclaration \/ ParseReturn

SpecParser == ParserInit /\ [][ParserNext]_vars

\* the type of the token at 0-based index p, "EOF" past the end
TypeAt(p) == IF p + 1 <= Len(tokens) THEN tokens[p + 1].token_type ELSE "EOF"

\* the index after the run of `!` and `-` tokens that starts at p
RECURSIVE OperatorsEnd(_)
OperatorsEnd(p) == IF TypeAt(p) \in {"BANG", "MINUS"} THEN OperatorsEnd(p + 1) ELSE p

\* the tree the grammar rule unary -> ("!" | "-") unary | primary gives the
\* operators and the literal that start at p
RECURSIVE UnaryTree(_)
UnaryTree(p) ==
    IF TypeAt(p) \in {"BANG", "MINUS"}
    THEN Unary(tokens[p + 1], UnaryTree(p + 1))
    ELSE Literal(ValueFromToken(tokens[p + 1]))

\* at p stands a statement made of one or more `!` or `-`, a literal and `;`
IsUnaryStatement(p) ==
    /\ TypeAt(p) \in {"BANG", "MINUS"}
    /\ TypeAt(OperatorsEnd(p)) \in {"NUMBER", "TRUE"}
    /\ TypeAt(OperatorsEnd(p) + 1) = "SEMICOLON"

\* C8: on `!` or `-` unary consumes the operator, parses the unary operand and
\* returns the Unary node of both, consuming nothing else: `-1;` is the
\* expression statement Unary(-, 1), `!true;` Unary(!, true), `- - 1;` Unary(-, Unary(-, 1))
C8_UnaryProduction ==
    \A k \in 1..Len(plog) :
        IsUnaryStatement(plog[k].from)
            => /\ plog[k].status = "Ok"
               /\ plog[k].stmt = Some(ExpressionStmt(UnaryTree(plog[k].from)))
               /\ plog[k].pos = OperatorsEnd(plog[k].from) + 2

\* at p stands `(` and then the end of input, or `(`, an operand and then
\* `;` or the end of input: a grouping that is not closed
IsUnclosedGrouping(p) ==
    /\ TypeAt(p) = "LeftParen"
    /\ \/ TypeAt(p + 1) = "EOF"
       \/ /\ TypeAt(p + 1) \in {"NUMBER", "TRUE", "IDENTIFIER"}
          /\ TypeAt(p + 2) \in {"SEMICOLON", "EOF"}

\* C9: a `(` whose expression is not followed by `)`, also a `(` that is the
\* last token before EOF, gives the parse error "Expect ')' after expression"
\* and a normal return: no panic, no index out of range, no endless recursion
C9_UnclosedGroupingIsParseError ==
    /\ pstate # "crashed"
    /\ \A k \in 1..Len(plog) :
          IsUnclosedGrouping(plog[k].from)
              => /\ plog[k].status = "Err"
                 /\ plog[k].pushed[1].message = "Expect ')' after expression."

\* C10: a broken declaration records exactly one error and synchronize
\* discards tokens only up to and including the next `;` or up to the next
\* token that starts a statement: no `;` lies inside what a failed declaration
\* consumed, and every statement-start token begins a declaration
C10_SynchronizeStopsAtBoundary ==
    /\ Len(errors) = Cardinality({k \in 1..Len(plog) : plog[k].status = "Err"})
    /\ \A k \in 1..Len(plog) :
          plog[k].status = "Err"
              => /\ Len(plog[k].pushed) = 1
                 /\ \A j \in plog[k].from .. plog[k].pos - 2 : TypeAt(j) # "SEMICOLON"
    /\ pstate = "returned"
          => \A q \in 0..Len(tokens) - 1 :
                TypeAt(q) \in StatementStart => \E k \in 1..Len(plog) : plog[k].from = q

\* the declarations of the pass that failed, in the order they were parsed
BrokenDeclarations == {k \in 1..Len(plog) : plog[k].status = "Err"}

\* C11: parse returns Ok with the statements exactly when no declaration of
\* the pass recorded an error, and otherwise the error of the earliest broken
\* declaration, however many errors were recorded after it
C11_ParseReturnsFirstError ==
    pstate = "returned"
        => /\ IsSome(parseResult)
           /\ (Unwrap(parseResult).status = "Ok") <=> (BrokenDeclarations = {})
           /\ BrokenDeclarations = {} => Unwrap(parseResult) = Ok(statements)
           /\ \A k \in BrokenDeclarations :
                 (\A j \in BrokenDeclarations : k <= j)
                     => Unwrap(parseResult) = Err(plog[k].pushed[1])

\* parse has returned after two broken declarations with different errors
C11_Witness ==
    /\ pstate = "returned"
    /\ Cardinality(BrokenDeclarations) >= 2
    /\ errors[1] # errors[Len(errors)]
    /\ Unwrap(parseResult) = Err(errors[1])

\* what the caller of parse gets from its result (main.rs:65-73): the
\* statements of Ok(stmts), nothing but the error of Err(e)
StatementsOf(result) == IF result.status = "Ok" THEN Some(result.val) ELSE None

\* C12: when an error was recorded, the caller of parse still has the
\* statements that were parsed before and after the broken one
C12_StatementsSurviveError ==
    (pstate = "returned" /\ errors # <<>> /\ statements # <<>>)
        => StatementsOf(Unwrap(parseResult)) = Some(statements)

\* C27: parse terminates on every token sequence that ends with EOF: no
\* call of declaration ends the process, each one returns with the cursor
\* further on than it found it, and the cursor never passes the index of the
\* EOF token, so the loop of parse reaches EOF after finitely many iterations
C27_ParseTerminates ==
    /\ pstate # "crashed"
    /\ position <= Len(tokens) - 1
    /\ \A k \in 1..Len(plog) :
          /\ plog[k].status # "Crash"
          /\ plog[k].from < plog[k].pos
          /\ plog[k].pos <= Len(tokens) - 1

-----------------------------------------------------------------------------
(* parse on expression statements: chains of operands joined by operators *)

MaxOperators == 2

\* token_type and lexeme of the operators of equality, comparison, term and factor
BinaryOperators ==
    { <<"EqualEqual", <<"=", "=">>, None>>, <<"BangEqual", <<"!", "=">>, None>>,
      <<"GREATER", <<">">>, None>>, <<"GreaterEqual", <<">", "=">>, None>>,
      <<"LESS", <<"<">>, None>>, <<"LessEqual", <<"<", "=">>, None>>,
      <<"MINUS", <<"-">>, None>>, <<"PLUS", <<"+">>, None>>,
      <<"STAR", <<"*">>, None>>, <<"SLASH", <<"/">>, None>> }

\* the operators of the chains with assignments
AssignOperators ==
    { <<"EQUAL", <<"=">>, None>>, <<"PLUS", <<"+">>, None>>,
      <<"EqualEqual", <<"=", "=">>, None>> }

NumberKind(i) == <<"NUMBER", <<Digit(i)>>, Some(<<Digit(i)>>)>>
IdentifierKind(i) == <<"IDENTIFIER", <<(<<"a", "b", "c", "d", "e", "f">>)[i]>>, None>>

\* the tokens of the i-th operand of a chain: the literal i, the name i,
\* `( i + i )` or `( name )`
OperandKinds(shape, i) ==
    CASE shape = "literal" -> <<NumberKind(i)>>
      [] shape = "variable" -> <<IdentifierKind(i)>>
      [] shape = "group" ->
           << <<"LeftParen", <<"(">>, None>>, NumberKind(i), <<"PLUS", <<"+">>, None>>,
              NumberKind(i), <<"RightParen", <<")">>, None>> >>
      [] shape = "groupedVariable" ->
           << <<"LeftParen", <<"(">>, None>>, IdentifierKind(i), <<"RightParen", <<")">>, None>> >>

\* operand 1, operator 1, operand 2, ... from the i-th operand on
RECURSIVE ChainKinds(_, _, _)
ChainKinds(shapes, ops, i) ==
    IF i > Len(shapes) THEN <<>>
    ELSE OperandKinds(shapes[i], i)
         \o (IF i <= Len(ops) THEN <<ops[i]>> ELSE <<>>)
         \o ChainKinds(shapes, ops, i + 1)

\* the token sequences of the statements `operand (operator operand)* ;` with
\* at most `most` operators
Chains(Shapes, Operators, most) ==
    UNION { { TokensOf(ChainKinds(shapes, ops, 1) \o << <<"SEMICOLON", <<";">>, None>> >>) :
                shapes \in [1..n + 1 -> Shapes], ops \in [1..n -> Operators] } :
            n \in 0..most }

ExprInputs(most) ==
    Chains({"literal", "group"}, BinaryOperators, most)
        \cup Chains({"literal", "variable", "groupedVariable"}, AssignOperators, most)

\* Parser::new(tokens) on an expression statement, and the entry of parse
ExprInit ==
    /\ tokens \in ExprInputs(MaxOperators)
    /\ position = 0
    /\ errors = <<>>
    /\ statements = <<>>
    /\ pstate = "parsing"
    /\ parseResult = <<>>
    /\ plog = <<>>
    /\ values = EmptyEnv
    /\ calls = <<>>
    /\ InterpIdle
    /\ RunIdle

SpecExpr == ExprInit /\ [][ParserNext]_vars

\* the grammar level of a binary operator: the higher, the tighter it binds
Level(token_type) ==
    CASE token_type \in {"EqualEqual", "BangEqual"} -> 1
      [] token_type \in {"GREATER", "GreaterEqual", "LESS", "LessEqual"} -> 2
      [] token_type \in {"MINUS", "PLUS"} -> 3
      [] token_type \in {"STAR", "SLASH"} -> 4
      [] OTHER -> 0

\* the token at p is outside every parenthesis opened at or after lo
Outside(lo, p) ==
    Cardinality({q \in lo..p - 1 : TypeAt(q) = "LeftParen"})
        = Cardinality({q \in lo..p - 1 : TypeAt(q) = "RightParen"})

\* the positions in lo..hi of the operators of the given types that are not
\* inside a parenthesis
OperatorsIn(lo, hi, types) == {p \in lo..hi : TypeAt(p) \in types /\ Outside(lo, p)}

AllBinary ==
    {"EqualEqual", "BangEqual", "GREATER", "GreaterEqual", "LESS", "LessEqual",
     "MINUS", "PLUS", "STAR", "SLASH"}

\* the operator at which the grammar splits lo..hi: the last one of the
\* loosest level
SplitAt(lo, hi) ==
    CHOOSE p \in OperatorsIn(lo, hi, AllBinary) :
        \A q \in OperatorsIn(lo, hi, AllBinary) :
            \/ Level(TypeAt(p)) < Level(TypeAt(q))
            \/ Level(TypeAt(p)) = Level(TypeAt(q)) /\ q <= p

\* the tree the grammar of expression.rs gives the binary expression lo..hi
RECURSIVE GrammarTree(_, _)
GrammarTree(lo, hi) ==
    IF OperatorsIn(lo, hi, AllBinary) # {}
    THEN Binary(GrammarTree(lo, SplitAt(lo, hi) - 1), tokens[SplitAt(lo, hi) + 1],
                GrammarTree(SplitAt(lo, hi) + 1, hi))
    ELSE IF TypeAt(lo) = "LeftParen" THEN Grouping(GrammarTree(lo + 1, hi - 1))
    ELSE IF TypeAt(lo) = "IDENTIFIER" THEN Variable(tokens[lo + 1])
    ELSE Literal(ValueFromToken(tokens[lo + 1]))

\* the position of the last token before the `;` of the expression statement
LastOperand == Len(tokens) - 3

\* the input is a chain of literals and groupings joined by binary operators
IsBinaryChain ==
    \A p \in 0..LastOperand :
        TypeAt(p) \in AllBinary \cup {"NUMBER", "LeftParen", "RightParen"}

\* the first declaration of the pass gave the expression statement of expr
\* and stopped after its `;`
ParsedAs(expr) ==
    /\ plog[1].status = "Ok"
    /\ plog[1].stmt = Some(ExpressionStmt(expr))
    /\ plog[1].pos = Len(tokens) - 1

\* C14: in a chain of literals and parenthesised operands joined by binary
\* operators, `*` and `/` bind tighter than `+` and `-`, these tighter than the
\* comparisons, these tighter than `==` and `!=`, and a parenthesised operand
\* is a Grouping
C14_Precedence ==
    (plog # <<>> /\ IsBinaryChain) => ParsedAs(GrammarTree(0, LastOperand))

\* `1 + 2 * 3;` has been parsed as Binary(1, +, Binary(2, *, 3))
C14_Witness ==
    /\ plog # <<>>
    /\ Len(tokens) = 7
    /\ TypeAt(1) = "PLUS"
    /\ TypeAt(3) = "STAR"
    /\ plog[1].stmt = Some(ExpressionStmt(
           Binary(Literal(Some(Num(1))), tokens[2],
                  Binary(Literal(Some(Num(2))), tokens[4], Literal(Some(Num(3)))))))

\* the tree of operand, operator, operand, ... nested to the left, up to the
\* operand that ends at hi
RECURSIVE LeftNested(_)
LeftNested(hi) ==
    IF OperatorsIn(0, hi, AllBinary) = {} THEN GrammarTree(0, hi)
    ELSE LET p == CHOOSE p \in OperatorsIn(0, hi, AllBinary) :
                      \A q \in OperatorsIn(0, hi, AllBinary) : q <= p
         IN  Binary(LeftNested(p - 1), tokens[p + 1], GrammarTree(p + 1, hi))

\* all operators of the chain are of one grammar level
IsOneLevel ==
    \A p, q \in OperatorsIn(0, LastOperand, AllBinary) :
        Level(TypeAt(p)) = Level(TypeAt(q))

\* C15: a chain of operators of one level nests to the left:
\* a op1 b op2 c is Binary(Binary(a, op1, b), op2, c)
C15_LeftAssociative ==
    (plog # <<>> /\ IsBinaryChain /\ IsOneLevel) => ParsedAs(LeftNested(LastOperand))

\* `1 - 2 - 3;` has been parsed as Binary(Binary(1, -, 2), -, 3)
C15_Witness ==
    /\ plog # <<>>
    /\ Len(tokens) = 7
    /\ TypeAt(1) = "MINUS"
    /\ TypeAt(3) = "MINUS"
    /\ plog[1].stmt = Some(ExpressionStmt(
           Binary(Binary(Literal(Some(Num(1))), tokens[2], Literal(Some(Num(2)))),
                  tokens[4], Literal(Some(Num(3))))))

\* the positions of the `=` tokens of the statement
Equals == OperatorsIn(0, LastOperand, {"EQUAL"})

\* the input is a chain of literals, names and parenthesised names joined by
\* `=`, `+` and `==`, with at least one `=`
IsAssignChain ==
    /\ Equals # {}
    /\ \A p \in 0..LastOperand :
          TypeAt(p) \in {"NUMBER", "IDENTIFIER", "LeftParen", "RightParen",
                         "EQUAL", "PLUS", "EqualEqual"}

\* where the left-hand expression of the `=` at q begins
TargetStart(q) ==
    IF \E e \in Equals : e < q
    THEN 1 + CHOOSE e \in Equals : e < q /\ \A f \in Equals : f < q => f <= e
    ELSE 0

\* the `=` tokens whose left-hand expression is not a bare name
BadTargets == {q \in Equals : ~(TargetStart(q) = q - 1 /\ TypeAt(q - 1) = "IDENTIFIER")}

\* the tree of name = name = ... = value from position lo on, nested to the right
RECURSIVE AssignTree(_)
AssignTree(lo) ==
    IF \E e \in Equals : e >= lo
    THEN AssignExpr(tokens[lo + 1], AssignTree(lo + 2))
    ELSE GrammarTree(lo, LastOperand)

\* the parse error "Invalid Assignment Target." at the `=` at q
InvalidTarget(q) ==
    [kind |-> "ParseErrorCustom", message |-> "Invalid Assignment Target.",
     at_end |-> FALSE, line |-> tokens[q + 1].line, lexeme |-> tokens[q + 1].lexeme]

\* C13: assignment nests to the right and takes only a bare name as target:
\* `a = b = e` is Assign(a, Assign(b, e)); a literal, a grouping or a binary
\* expression before `=` gives the error "Invalid Assignment Target." with the
\* line of that `=`, and no statement
C13_AssignmentTargets ==
    (plog # <<>> /\ IsAssignChain)
        => IF BadTargets = {}
           THEN ParsedAs(AssignTree(0))
           ELSE /\ plog[1].status = "Err"
                /\ plog[1].stmt = None
                /\ \E q \in BadTargets : plog[1].pushed = <<InvalidTarget(q)>>

\* `a = b = 3;` has been parsed as Assign(a, Assign(b, 3))
C13_Witness ==
    /\ plog # <<>>
    /\ Len(tokens) = 7
    /\ TypeAt(0) = "IDENTIFIER" /\ TypeAt(1) = "EQUAL"
    /\ TypeAt(2) = "IDENTIFIER" /\ TypeAt(3) = "EQUAL"
    /\ plog[1].stmt = Some(ExpressionStmt(
           AssignExpr(tokens[1], AssignExpr(tokens[3], Literal(Some(Num(3)))))))

-----------------------------------------------------------------------------
(* evaluate on unary and binary expressions over literals, as the tests of *)
(* interpreter.rs call it on one Interpreter                               *)

MaxEvals == 2

\* operand values of every variant
OperandValues ==
    {Num(0), Num(3), Boolean(TRUE), Boolean(FALSE), Nil, String(<<>>), String(<<"a">>)}

OperatorLines == {1, 4}

UnaryOperators == { <<"MINUS", <<"-">>>>, <<"BANG", <<"!">>>> }

BinaryOperatorTokens(line) == {Token(k[1], k[2], None, line) : k \in BinaryOperators}

\* Unary { operator, right: Literal } and Binary { left: Literal, operator, right: Literal }
EvalInputs ==
    { Unary(Token(k[1], k[2], None, line), Literal(Some(v))) :
        k \in UnaryOperators, line \in OperatorLines, v \in OperandValues }
    \cup
    UNION { { Binary(Literal(Some(l)), operator, Literal(Some(r))) :
                operator \in BinaryOperatorTokens(line), l \in OperandValues, r \in OperandValues } :
            line \in OperatorLines }

\* Interpreter::new()
EvalInit ==
    /\ statments = <<>>
    /\ idx = 0
    /\ output = <<>>
    /\ log = <<>>
    /\ istate = "ready"
    /\ values = EmptyEnv
    /\ calls = <<>>
    /\ ParserIdle
    /\ RunIdle

\* interpreter.evaluate(expr); log holds the last call and its result
EvaluateCall ==
    /\ istate = "ready"
    /\ idx < MaxEvals
    /\ \E expr \in EvalInputs :
          /\ log' = <<[expr |-> expr, res |-> Evaluate(values, expr)]>>
          /\ values' = log'[1].res.values
    /\ idx' = idx + 1
    /\ UNCHANGED <<runVars, statments, output, istate, calls, parserVars>>

\* the Interpreter is dropped
EvalDone ==
    /\ istate = "ready"
    /\ idx > 0
    /\ istate' = "done"
    /\ UNCHANGED <<runVars, statments, idx, output, log, envVars, parserVars>>

EvalNext == EvaluateCall \/ EvalDone

SpecEval == EvalInit /\ [][EvalNext]_vars

\* the last call evaluated operator applied to the literal v
UnaryCall(token_type, v) ==
    /\ log # <<>>
    /\ log[1].expr.kind = "Unary"
    /\ log[1].expr.operator.token_type = token_type
    /\ log[1].expr.right = Literal(Some(v))

\* the last call evaluated l operator r on literals
BinaryCall(token_type, l, r) ==
    /\ log # <<>>
    /\ log[1].expr.kind = "Binary"
    /\ log[1].expr.operator.token_type = token_type
    /\ log[1].expr.left = Literal(Some(l))
    /\ log[1].expr.right = Literal(Some(r))

\* the last call returned Ok(v)
Yields(v) == log[1].res.status = "Ok" /\ log[1].res.val = v

\* the last call returned the runtime error with this message and the line
\* of the operator
FailsWith(message) ==
    /\ log[1].res.status = "Err"
    /\ log[1].res.err.kind = "Runtime"
    /\ log[1].res.err.message = message
    /\ log[1].res.err.arg = <<>>
    /\ log[1].res.err.line = log[1].expr.operator.line

\* C16: `-` negates a Number and fails with "Operand must be a number" on
\* every other variant; `!` negates a Boolean, gives true for Nil and fails
\* with "Operand must be a boolean" on Number and String; the error carries
\* the line of the operator
C16_UnaryTypeChecked ==
    \A v \in OperandValues :
        /\ UnaryCall("MINUS", v)
              => IF v.kind = "Number"
                 THEN /\ log[1].res.status = "Ok"
                      /\ log[1].res.val.kind = "Number"
                      /\ F64Eq(F64Add(log[1].res.val.n, v.n), F64(0, 1))
                 ELSE FailsWith("Operand must be a number")
        /\ UnaryCall("BANG", v)
              => CASE v.kind = "Boolean" -> Yields(Boolean(~v.b))
                   [] v.kind = "Nil" -> Yields(Boolean(TRUE))
                   [] OTHER -> FailsWith("Operand must be a boolean")

\* `!` has been applied to a String and failed on the operator's line 4
C16_Witness ==
    /\ UnaryCall("BANG", String(<<"a">>))
    /\ log[1].res.status = "Err"
    /\ log[1].res.err.line = 4

\* C17: `+` succeeds exactly on Number + Number, with the sum, and on
\* String + String, with the left text followed by the right; every other
\* pair fails with "Operands must be two numbers or two strings"
C17_PlusTypeChecked ==
    \A l, r \in OperandValues :
        BinaryCall("PLUS", l, r)
            => CASE l.kind = "Number" /\ r.kind = "Number" ->
                       Yields(Number(F64(l.n.num + r.n.num, 1)))
                 [] l.kind = "String" /\ r.kind = "String" ->
                       /\ log[1].res.status = "Ok"
                       /\ log[1].res.val.kind = "String"
                       /\ Len(log[1].res.val.s) = Len(l.s) + Len(r.s)
                       /\ SubSeq(log[1].res.val.s, 1, Len(l.s)) = l.s
                       /\ SubSeq(log[1].res.val.s, Len(l.s) + 1, Len(l.s) + Len(r.s)) = r.s
                 [] OTHER -> FailsWith("Operands must be two numbers or two strings")

\* String("a") + Number(3) has failed
C17_Witness ==
    /\ BinaryCall("PLUS", String(<<"a">>), Num(3))
    /\ log[1].res.status = "Err"

\* the operators that take two Numbers
ArithmeticTypes == {"MINUS", "SLASH", "STAR"}
ComparisonTypes == {"GREATER", "GreaterEqual", "LESS", "LessEqual"}

\* C18: `-`, `/`, `*` give a Number and `>`, `>=`, `<`, `<=` a Boolean when
\* both operands are Numbers, and fail with "Operands must be numbers" on the
\* operator's line when either operand is of another variant
C18_NumbersOnly ==
    \A l, r \in OperandValues :
        \A t \in ArithmeticTypes \cup ComparisonTypes :
            BinaryCall(t, l, r)
                => IF l.kind = "Number" /\ r.kind = "Number"
                   THEN /\ log[1].res.status = "Ok"
                        /\ log[1].res.val.kind
                              = (IF t \in ArithmeticTypes THEN "Number" ELSE "Boolean")
                        /\ (t = "MINUS" /\ r.n.num = 0) => log[1].res.val = l
                        /\ (t = "STAR" /\ r.n.num = 0) => log[1].res.val = Num(0)
                        /\ t = "GREATER" => log[1].res.val.b = (l.n.num > r.n.num)
                        /\ t = "LessEqual" => log[1].res.val.b = (l.n.num <= r.n.num)
                   ELSE FailsWith("Operands must be numbers")

\* Number(3) > Nil has failed on the operator's line 4
C18_Witness ==
    /\ BinaryCall("GREATER", Num(3), Nil)
    /\ log[1].res.status = "Err"
    /\ log[1].res.err.line = 4

-----------------------------------------------------------------------------
(***************************************************************************)
(* Scanner (crates/intepreter/src/scanner/scanner.rs).  The code is a      *)
(* sequence of one-character strings, start and current are 0-based, and a *)
(* Scanner is the record of its fields.  "NUL" stands for the char '\0'.   *)
(***************************************************************************)
NUL == "NUL"

\* char::is_alphabetic and char::is_digit(10) on the characters of the sources
Alphabetic ==
    {"a", "b", "c", "d", "e", "f", "g", "h", "i", "j", "k", "l", "m",
     "n", "o", "p", "q", "r", "s", "t", "u", "v", "w", "x", "y", "z"}
DigitChars == {"0", "1", "2", "3", "4", "5", "6", "7", "8", "9"}
Alphanumeric == Alphabetic \cup DigitChars

\* TokenType::from_str on a one-character string (token.rs:5-107); "Err"
\* when no variant is serialized as c
FromStr(c) ==
    CASE c = "(" -> "LeftParen" [] c = ")" -> "RightParen"
      [] c = "{" -> "LeftBrace" [] c = "}" -> "RightBrace"
      [] c = "," -> "COMMA" [] c = "." -> "DOT" [] c = "-" -> "MINUS"
      [] c = "+" -> "PLUS" [] c = ":" -> "COLON" [] c = "/" -> "SLASH"
      [] c = "*" -> "STAR" [] c = "\"" -> "QUOTESTRING"
      [] c = "!" -> "BANG" [] c = "=" -> "EQUAL" [] c = ">" -> "GREATER"
      [] c = "<" -> "LESS" [] c = " " -> "SPACE" [] c = "\r" -> "SLASHRETURN"
      [] c = "\t" -> "TAB" [] c = "\n" -> "NEWLINE" [] c = ";" -> "SEMICOLON"
      [] c = NUL -> "EOF"
      [] OTHER -> "Err"

\* TokenType::from_str on c followed by `=` (token.rs:36-49)
FromStrDouble(c) ==
    CASE c = "!" -> "BangEqual" [] c = "=" -> "EqualEqual"
      [] c = ">" -> "GreaterEqual" [] c = "<" -> "LessEqual"

\* TWO_CHAR_TOKENS (scanner.rs:281-284): the keys; every value is '='
TWO_CHAR_TOKENS == {"!", "=", "<", ">"}

\* KEYWORDS.get(text).unwrap_or(&TokenType::IDENTIFIER) (scanner.rs:252, 258-279)
KEYWORDS(text) ==
    CASE text = <<"a", "n", "d">> -> "AND"
      [] text = <<"c", "l", "a", "s", "s">> -> "CLASS"
      [] text = <<"e", "l", "s", "e">> -> "ELSE"
      [] text = <<"f", "a", "l", "s", "e">> -> "FALSE"
      [] text = <<"f", "o", "r">> -> "FOR"
      [] text = <<"f", "u", "n">> -> "FUN"
      [] text = <<"i", "f">> -> "IF"
      [] text = <<"n", "i", "l">> -> "NIL"
      [] text = <<"o", "r">> -> "OR"
      [] text = <<"p", "r", "i", "n", "t">> -> "PRINT"
      [] text = <<"r", "e", "t", "u", "r", "n">> -> "RETURN"
      [] text = <<"s", "u", "p", "e", "r">> -> "SUPER"
      [] text = <<"t", "h", "i", "s">> -> "THIS"
      [] text = <<"t", "r", "u", "e">> -> "TRUE"
      [] text = <<"v", "a", "r">> -> "VAR"
      [] text = <<"w", "h", "i", "l", "e">> -> "WHILE"
      [] OTHER -> "IDENTIFIER"

\* Scanner::new (scanner.rs:17-26)
NewScanner(code) ==
    [code |-> code, tokens |-> <<>>, start |-> 0, current |-> 0, line |-> 0,
     had_error |-> FALSE]

\* is_at_end (scanner.rs:43-45).  On the empty code `self.code.len() - 1` is
\* 0 - 1 in usize: a build with overflow checks panics there (ScanOverflowPanic),
\* a build without them wraps to usize::MAX, which no current is greater than
ScanIsAtEnd(s) == Len(s.code) > 0 /\ s.current > Len(s.code) - 1

\* peek and peek_next (scanner.rs:165-177)
ScanPeek(s) == IF ScanIsAtEnd(s) THEN NUL ELSE s.code[s.current + 1]
ScanPeekNext(s) == IF s.current + 1 >= Len(s.code) THEN NUL ELSE s.code[s.current + 2]

\* advance (scanner.rs:209-219): the scanner it leaves, and the char it returns
ScanAdvance(s) == IF s.current < Len(s.code) THEN [s EXCEPT !.current = @ + 1] ELSE s
AdvancedChar(s) == IF s.current < Len(s.code) THEN s.code[s.current + 1] ELSE NUL

\* add_token_with_literal and add_token (scanner.rs:228-245); code.get is
\* None when the range is not inside the code
AddTokenWithLiteral(s, token_type, literal) ==
    IF s.start <= s.current /\ s.current <= Len(s.code)
    THEN [s EXCEPT !.tokens = Append(@, Token(token_type,
                                              SubSeq(s.code, s.start + 1, s.current),
                                              literal, s.line))]
    ELSE [s EXCEPT !.tokens = Append(@, Token("EOF", <<NUL>>, literal, s.line))]

AddToken(s, token_type) == AddTokenWithLiteral(s, token_type, None)

\* match_double (scanner.rs:193-207): the type it returns and the scanner it leaves
MatchDouble(s, expected, one_char_token, two_char_token) ==
    IF ScanIsAtEnd(s) THEN [token_type |-> "EOF", s |-> s]
    ELSE IF s.code[s.current + 1] # expected THEN [token_type |-> one_char_token, s |-> s]
    ELSE [token_type |-> two_char_token, s |-> [s EXCEPT !.current = @ + 1]]

\* `while self.peek().is_..() { self.advance(); }` for the characters of class
RECURSIVE AdvanceWhileIn(_, _)
AdvanceWhileIn(s, class) ==
    IF ScanPeek(s) \in class THEN AdvanceWhileIn(ScanAdvance(s), class) ELSE s

\* a comment that runs to the end of the source
SkipCommentToEnd(s) == [s EXCEPT !.current = Len(s.code)]

\* the loop of a comment (scanner.rs:95-97)
RECURSIVE SkipComment(_)
SkipComment(s) ==
    IF ScanPeek(s) # "\n" /\ ~ScanIsAtEnd(s) THEN SkipComment(ScanAdvance(s)) ELSE s

\* the loop of string (scanner.rs:141-146)
RECURSIVE StringBody(_)
StringBody(s) ==
    IF ScanPeek(s) # "\"" /\ ~ScanIsAtEnd(s)
    THEN StringBody(ScanAdvance(IF ScanPeek(s) = "\n" THEN [s EXCEPT !.line = @ + 1] ELSE s))
    ELSE s

\* number (scanner.rs:116-138)
ScanNumber(s) ==
    LET whole == AdvanceWhileIn(s, DigitChars)
        all == IF ScanPeek(whole) = "." /\ ScanPeekNext(whole) \in DigitChars
               THEN AdvanceWhileIn(ScanAdvance(whole), DigitChars)
               ELSE whole
    IN  AddTokenWithLiteral(all, "NUMBER", Some(SubSeq(all.code, all.start + 1, all.current)))

\* a string whose literal keeps its quotes
ScanStringKeepingQuotes(s) ==
    LET closed == ScanAdvance(StringBody(s))
    IN  AddTokenWithLiteral(closed, "STRING",
                            Some(SubSeq(closed.code, closed.start + 1, closed.current)))

\* string (scanner.rs:140-162): an unterminated string is only printed;
\* code.get(start + 1..current - 1) is None when the range is empty backwards
ScanString(s) ==
    LET closed == ScanAdvance(StringBody(s))
    IN  IF closed.start + 1 <= closed.current - 1
        THEN AddTokenWithLiteral(closed, "STRING",
                                 Some(SubSeq(closed.code, closed.start + 2, closed.current - 1)))
        ELSE closed

\* an identifier that ends at the first character that is no letter
ScanIdentifierOfLetters(s) ==
    LET word == AdvanceWhileIn(s, Alphabetic)
    IN  AddToken(word, KEYWORDS(SubSeq(word.code, word.start + 1, word.current)))

\* identifier (scanner.rs:247-254)
ScanIdentifier(s) ==
    LET word == AdvanceWhileIn(s, Alphanumeric)
    IN  AddToken(word, KEYWORDS(SubSeq(word.code, word.start + 1, word.current)))

\* the arms of `None => match token_type` (scanner.rs:80-106); s is past c
ScanSingle(s, token_type) ==
    CASE token_type \in {"SPACE", "SLASHRETURN", "TAB"} -> s
      [] token_type = "SEMICOLON" ->
           IF ScanPeekNext(s) = "\n" THEN ScanAdvance(s) ELSE [s EXCEPT !.line = @ + 1]
      [] token_type = "NEWLINE" -> [s EXCEPT !.line = @ + 1]
      [] token_type = "SLASH" ->
           IF ~ScanIsAtEnd(s) /\ s.code[s.current + 1] = "/"
           THEN SkipComment([s EXCEPT !.current = @ + 1])
           ELSE AddToken(s, token_type)
      [] token_type = "QUOTESTRING" -> ScanString(s)
      [] OTHER -> AddToken(s, token_type)

\* scan_token (scanner.rs:47-114) with c = self.advance()
ScanTokenOf(s, c) ==
    IF c \in Alphabetic THEN ScanIdentifier(s)
    ELSE IF c \in DigitChars THEN ScanNumber(s)
    ELSE IF FromStr(c) = "Err" THEN [s EXCEPT !.had_error = TRUE]
    ELSE IF c \in TWO_CHAR_TOKENS
    THEN AddToken(MatchDouble(s, "=", FromStr(c), FromStrDouble(c)).s,
                  MatchDouble(s, "=", FromStr(c), FromStrDouble(c)).token_type)
    ELSE ScanSingle(s, FromStr(c))

ScanToken(s) == ScanTokenOf(ScanAdvance(s), AdvancedChar(s))

\* scan_tokens (scanner.rs:35-41) from the state s to its end
RECURSIVE ScanTokens(_)
ScanTokens(s) ==
    IF ScanIsAtEnd(s) THEN s ELSE ScanTokens(ScanToken([s EXCEPT !.start = s.current]))

-----------------------------------------------------------------------------
(* run (main.rs:58-76): scan, parse, interpret *)

\* the source `var x = 10; x = x + 5; print x;`
AssignProgram ==
    <<"v", "a", "r", " ", "x", " ", "=", " ", "1", "0", ";", " ", "x", " ",
      "=", " ", "x", " ", "+", " ", "5", ";", " ", "p", "r", "i", "n", "t",
      " ", "x", ";">>

\* the source `print 1 + 2 * 3;`
PrintProgram ==
    <<"p", "r", "i", "n", "t", " ", "1", " ", "+", " ", "2", " ", "*", " ",
      "3", ";">>

\* the source `print 1;\nprint "a b";\n`
SourceLines ==
    <<"p", "r", "i", "n", "t", " ", "1", ";", "\n", "p", "r", "i", "n", "t",
      " ", "\"", "a", " ", "b", "\"", ";", "\n">>

\* the source `1 / 2 // c\n!true;`
SourceComment ==
    <<"1", " ", "/", " ", "2", " ", "/", "/", " ", "c", "\n", "!", "t", "r",
      "u", "e", ";">>

\* the source `=`
SourceEqual ==
    <<"=">>

\* the source `x =`
SourceOpenAssign ==
    <<"x", " ", "=">>

\* the source `(1 <= 2) != false; y >`
SourceCompare ==
    <<"(", "1", " ", "<", "=", " ", "2", ")", " ", "!", "=", " ", "f", "a",
      "l", "s", "e", ";", " ", "y", " ", ">">>

\* the source `a # 1.5 <`
SourceUnknown ==
    <<"a", " ", "#", " ", "1", ".", "5", " ", "<">>

\* the source `var a = "s";\n(b) >`
SourceString ==
    <<"v", "a", "r", " ", "a", " ", "=", " ", "\"", "s", "\"", ";", "\n",
      "(", "b", ")", " ", ">">>

Sources ==
    {AssignProgram, PrintProgram, SourceLines, SourceComment, SourceEqual,
     SourceOpenAssign, SourceCompare, SourceUnknown, SourceString}

\* a line run itself writes
RunLine(text) == [stream |-> "run", text |-> text]
ParseErrorLine(error) == [stream |-> "Error parsing: ", error |-> error]

\* interpret (interpreter.rs:63-69) from statement i on: the environment it
\* leaves, the lines it writes and whether it returned
RECURSIVE Interpret(_, _, _)
Interpret(vals, stmts, i) ==
    IF i > Len(stmts) THEN [values |-> vals, lines |-> <<>>, status |-> "done"]
    ELSE LET r == Execute(vals, stmts[i])
             rest == Interpret(r.values, stmts, AfterStatement(i, r.status, Len(stmts)))
         IN  IF r.status = "Panic"
             THEN [values |-> r.values, lines |-> <<>>, status |-> "panicked"]
             ELSE [values |-> rest.values,
                   lines |-> (IF IsSome(r.printed) THEN <<PrintLine(Unwrap(r.printed))>> ELSE <<>>)
                             \o (IF r.status = "Err" THEN <<ErrorLine(r.err)>> ELSE <<>>)
                             \o rest.lines,
                   status |-> rest.status]

\* some token is the EOF token: only then is_at_end (parser.rs:197-199) can
\* become true before peek (parser.rs:171-173) indexes past the last token
HasEOF(toks) == \E k \in 1..Len(toks) : toks[k].token_type = "EOF"

\* run(file_content) up to Scanner::new
RunInit ==
    /\ scanner \in {NewScanner(code) : code \in Sources}
    /\ rstate = "scanning"
    /\ values = EmptyEnv
    /\ calls = <<>>
    /\ InterpIdle
    /\ ParserIdle

\* the iterations of the loop of scan_tokens that are followed once `current`
\* stands still: on the empty code the loop pushes tokens without end
MaxSpin == 2

\* one iteration of the loop of scan_tokens
ScanStep ==
    /\ rstate = "scanning"
    /\ ~ScanIsAtEnd(scanner)
    /\ Len(scanner.tokens) < Len(scanner.code) + MaxSpin
    /\ scanner' = ScanToken([scanner EXCEPT !.start = scanner.current])
    /\ UNCHANGED <<rstate, envVars, interpVars, parserVars>>

\* scan_tokens returns; Parser::new(&scanner.tokens) and Interpreter::new()
ScanTokensReturn ==
    /\ rstate = "scanning"
    /\ ScanIsAtEnd(scanner)
    /\ rstate' = "parsing"
    /\ tokens' = scanner.tokens
    /\ pstate' = "parsing"
    /\ UNCHANGED <<scanner, position, errors, statements, parseResult, plog,
                   envVars, interpVars>>

\* parse on tokens that hold an EOF token
RunParseDeclaration == rstate = "parsing" /\ HasEOF(tokens) /\ ParseDeclaration
RunParseReturn == rstate = "parsing" /\ HasEOF(tokens) /\ ParseReturn

\* parse on tokens without an EOF token: is_at_end is never true, the cursor
\* reaches tokens.len() and peek panics with an index out of bounds
RunParsePanic ==
    /\ rstate = "parsing"
    /\ pstate = "parsing"
    /\ ~HasEOF(tokens)
    /\ pstate' = "crashed"
    /\ rstate' = "panicked"
    /\ UNCHANGED <<scanner, tokens, position, errors, statements, parseResult, plog,
                   envVars, interpVars>>

\* `match parser.parse()`: interpret the statements or print the error, then "Done"
RunMatch ==
    /\ rstate = "parsing"
    /\ pstate = "returned"
    /\ IF Unwrap(parseResult).status = "Ok"
       THEN /\ statments' = Unwrap(parseResult).val
            /\ values' = Interpret(values, statments', 1).values
            /\ istate' = Interpret(values, statments', 1).status
            /\ output' = output \o <<RunLine("Parsed successfully")>>
                            \o Interpret(values, statments', 1).lines
                            \o (IF istate' = "done" THEN <<RunLine("Done")>> ELSE <<>>)
            /\ rstate' = IF istate' = "done" THEN "done" ELSE "panicked"
       ELSE /\ output' = output \o <<ParseErrorLine(Unwrap(parseResult).err), RunLine("Done")>>
            /\ rstate' = "done"
            /\ UNCHANGED <<statments, values, istate>>
    /\ UNCHANGED <<scanner, calls, idx, log, parserVars>>

RunNext ==
    \/ ScanStep
    \/ ScanTokensReturn
    \/ RunParseDeclaration
    \/ RunParseReturn
    \/ RunParsePanic
    \/ RunMatch

SpecRun == RunInit /\ [][RunNext]_vars

\* run has ended: it returned or it panicked
RunEnded == rstate \in {"done", "panicked"}

\* the lines the print statements of the program wrote
RECURSIVE Printed(_)
Printed(lines) ==
    IF lines = <<>> THEN <<>>
    ELSE (IF lines[1].stream = "print" THEN <<lines[1].text>> ELSE <<>>) \o Printed(Tail(lines))

TokenTypes(toks) == [k \in 1..Len(toks) |-> toks[k].token_type]

-----------------------------------------------------------------------------
(***************************************************************************)
(* scan_tokens (scanner.rs:35-41) alone, on every text of at most MaxCode  *)
(* characters over a few small alphabets, the empty text among them.       *)
(***************************************************************************)
MaxCode == 5

\* the texts of at most n characters over chars
Texts(chars, n) == UNION {[1..k -> chars] : k \in 0..n}

\* words, string literals and comments, in texts of up to MaxCode characters
WordChars == {"o", "r", "1", " "}
StringChars == {"\"", "a", "\n", "+"}
CommentChars == {"/", "a", "\n", "+"}

\* operators, unrecognized characters and line ends, in texts two characters shorter
OperatorChars == {"!", "=", "<", ">", "1"}
ErrorChars == {"#", "\"", "a", "+", " "}
LineChars == {";", "\n", " ", "\t", "a"}

ScanInputs ==
    Texts(WordChars, MaxCode) \cup Texts(StringChars, MaxCode)
        \cup Texts(CommentChars, MaxCode) \cup Texts(OperatorChars, MaxCode - 2)
        \cup Texts(ErrorChars, MaxCode - 2) \cup Texts(LineChars, MaxCode - 2)

\* Scanner::new(code)
ScanInit ==
    /\ scanner \in {NewScanner(code) : code \in ScanInputs}
    /\ rstate = "scanning"
    /\ values = EmptyEnv
    /\ calls = <<>>
    /\ InterpIdle
    /\ ParserIdle

\* the loop of scan_tokens ends and scan_tokens returns
ScanTokensEnd ==
    /\ rstate = "scanning"
    /\ ScanIsAtEnd(scanner)
    /\ rstate' = "scanned"
    /\ UNCHANGED <<scanner, envVars, interpVars, parserVars>>

\* is_at_end on the empty code in a build with overflow checks: the
\* subtraction `self.code.len() - 1` panics
ScanOverflowPanic ==
    /\ rstate = "scanning"
    /\ Len(scanner.code) = 0
    /\ rstate' = "panicked"
    /\ UNCHANGED <<scanner, envVars, interpVars, parserVars>>

ScanNext == ScanStep \/ ScanTokensEnd \/ ScanOverflowPanic

SpecScan == ScanInit /\ [][ScanNext]_vars

\* a step that is one call of scan_token
ScanTokenRan == rstate = "scanning" /\ rstate' = "scanning" /\ scanner' # scanner

\* the k-th character ahead of `current` before the call, '\0' past the end
Ahead(k) ==
    IF scanner.current + k <= Len(scanner.code) THEN scanner.code[scanner.current + k]
    ELSE NUL

\* the tokens the call pushed
Emitted == SubSeq(scanner'.tokens, Len(scanner.tokens) + 1, Len(scanner'.tokens))

OneCharCategory(c) ==
    CASE c = "!" -> "BANG" [] c = "=" -> "EQUAL" [] c = "<" -> "LESS" [] c = ">" -> "GREATER"

TwoCharCategory(c) ==
    CASE c = "!" -> "BangEqual" [] c = "=" -> "EqualEqual"
      [] c = "<" -> "LessEqual" [] c = ">" -> "GreaterEqual"

\* C21: on `!`, `=`, `<` or `>` followed by `=` scan_token consumes both and
\* emits the two-character category; followed by anything else, or by the end
\* of the source, it consumes one character and emits the one-character
\* category with that character as the lexeme
C21_TwoCharTokens ==
    [][(ScanTokenRan /\ Ahead(1) \in {"!", "=", "<", ">"})
          => IF Ahead(2) = "="
             THEN /\ Emitted = <<Token(TwoCharCategory(Ahead(1)), <<Ahead(1), "=">>,
                                       None, scanner.line)>>
                  /\ scanner'.current = scanner.current + 2
             ELSE /\ Emitted = <<Token(OneCharCategory(Ahead(1)), <<Ahead(1)>>,
                                       None, scanner.line)>>
                  /\ scanner'.current = scanner.current + 1]_vars

\* how a reader of the source stands after its first i characters: in plain
\* code, after a `/` that may open a comment, inside a string literal or
\* inside a line comment
RECURSIVE After(_, _)
After(code, i) ==
    IF i = 0 THEN "code"
    ELSE LET m == After(code, i - 1)
             c == code[i]
         IN  CASE m = "string" -> IF c = "\"" THEN "code" ELSE "string"
               [] m = "comment" -> IF c = "\n" THEN "code" ELSE "comment"
               [] m = "slash" /\ c = "/" -> "comment"
               [] OTHER -> IF c = "\"" THEN "string" ELSE IF c = "/" THEN "slash" ELSE "code"

\* the positions of the characters outside strings and comments that are no
\* letter, no digit and no token of the language
Unrecognized(code) ==
    {i \in 1..Len(code) : /\ After(code, i - 1) \in {"code", "slash"}
                          /\ code[i] \notin Alphanumeric
                          /\ FromStr(code[i]) = "Err"}

\* the source ends inside a string literal
Unterminated(code) == After(code, Len(code)) = "string"

\* C22: when scan_tokens has finished, had_error is true exactly when the
\* source held an unrecognized character or a string literal without its
\* closing quote, and an unrecognized character costs no token: the tokens
\* are those of the source with a space in its place
C22_HadErrorFlag ==
    rstate = "scanned"
        => /\ scanner.had_error
                <=> (Unrecognized(scanner.code) # {} \/ Unterminated(scanner.code))
           /\ \A p \in Unrecognized(scanner.code) :
                 scanner.tokens
                    = ScanTokens(NewScanner([scanner.code EXCEPT ![p] = " "])).tokens

\* the sixteen reserved words
KeywordTexts ==
    { <<"a", "n", "d">>, <<"c", "l", "a", "s", "s">>, <<"e", "l", "s", "e">>,
      <<"f", "a", "l", "s", "e">>, <<"f", "o", "r">>, <<"f", "u", "n">>, <<"i", "f">>,
      <<"n", "i", "l">>, <<"o", "r">>, <<"p", "r", "i", "n", "t">>,
      <<"r", "e", "t", "u", "r", "n">>, <<"s", "u", "p", "e", "r">>,
      <<"t", "h", "i", "s">>, <<"t", "r", "u", "e">>, <<"v", "a", "r">>,
      <<"w", "h", "i", "l", "e">> }

\* the position after the longest run of letters and digits that starts at i
RECURSIVE RunEnd(_, _)
RunEnd(code, i) ==
    IF i <= Len(code) /\ code[i] \in Alphanumeric THEN RunEnd(code, i + 1) ELSE i

\* the word that starts at `current` before the call
WordAhead == SubSeq(scanner.code, scanner.current + 1, RunEnd(scanner.code, scanner.current + 1) - 1)

\* C23: a call of scan_token that starts at a letter consumes the longest run
\* of letters and digits and emits one token whose lexeme is that run; the
\* token is a keyword when the whole run is one of the sixteen keywords and
\* IDENTIFIER otherwise, also when the run starts with or contains a keyword
C23_WordsByMaximalRun ==
    [][(ScanTokenRan /\ Ahead(1) \in Alphabetic)
          => /\ Emitted = <<Token(IF WordAhead \in KeywordTexts THEN KEYWORDS(WordAhead)
                                  ELSE "IDENTIFIER",
                                  WordAhead, None, scanner.line)>>
             /\ Emitted[1].token_type = "IDENTIFIER" <=> WordAhead \notin KeywordTexts
             /\ scanner'.current = scanner.current + Len(WordAhead)]_vars

\* the scan of a source has ended with an IDENTIFIER whose lexeme is the
\* keyword `or` followed by a digit
C23_Witness ==
    /\ rstate = "scanned"
    /\ \E k \in 1..Len(scanner.tokens) :
          /\ scanner.tokens[k].token_type = "IDENTIFIER"
          /\ scanner.tokens[k].lexeme = <<"o", "r", "1">>

\* the position of the first `"` after position i, 0 when there is none
ClosingQuote(code, i) ==
    LET later == {q \in i + 1..Len(code) : code[q] = "\""}
    IN  IF later = {} THEN 0 ELSE CHOOSE q \in later : \A r \in later : q <= r

\* the number of newline characters at the positions lo..hi
NewlinesIn(code, lo, hi) == Cardinality({i \in lo..hi : code[i] = "\n"})

\* C24: a call of scan_token that starts at a `"` with a later `"` emits one
\* STRING token whose literal is the text strictly between the two quotes,
\* newlines included; the line counter grows by one per newline in it and
\* scanning resumes at the character after the closing quote
C24_StringLiteral ==
    [][(ScanTokenRan /\ Ahead(1) = "\"" /\ ClosingQuote(scanner.code, scanner.current + 1) # 0)
          => LET opening == scanner.current + 1
                 closing == ClosingQuote(scanner.code, opening)
                 newlines == NewlinesIn(scanner.code, opening + 1, closing - 1)
             IN  /\ Emitted = <<Token("STRING", SubSeq(scanner.code, opening, closing),
                                      Some(SubSeq(scanner.code, opening + 1, closing - 1)),
                                      scanner.line + newlines)>>
                 /\ scanner'.line = scanner.line + newlines
                 /\ scanner'.current = closing
                 /\ scanner'.had_error = scanner.had_error]_vars

\* the scan of a source has ended with a STRING token whose literal holds a
\* character and a newline, and with a token after it
C24_Witness ==
    /\ rstate = "scanned"
    /\ \E k \in 1..Len(scanner.tokens) - 1 :
          /\ scanner.tokens[k].token_type = "STRING"
          /\ scanner.tokens[k].literal = Some(<<"a", "\n">>)
          /\ scanner.tokens[k].line = 1
          /\ scanner.tokens[k + 1].token_type = "PLUS"

\* the position of the first newline at or after position i, and the position
\* after the last character when there is none
NewlineFrom(code, i) ==
    LET later == {q \in i..Len(code) : code[q] = "\n"}
    IN  IF later = {} THEN Len(code) + 1 ELSE CHOOSE q \in later : \A r \in later : q <= r

\* C25: a call of scan_token that starts at `//` consumes every character up
\* to, not including, the next newline or the end of the source and changes
\* nothing else: no token, no line, no error, so that what follows is scanned
\* as if the comment were not there; a `/` before anything else is one SLASH token
C25_LineComment ==
    [][(ScanTokenRan /\ Ahead(1) = "/")
          => IF Ahead(2) = "/"
             THEN scanner' = [scanner EXCEPT
                                 !.start = scanner.current,
                                 !.current = NewlineFrom(scanner.code, scanner.current + 3) - 1]
             ELSE /\ Emitted = <<Token("SLASH", <<"/">>, None, scanner.line)>>
                  /\ scanner'.current = scanner.current + 1]_vars

\* the scan of `//a`, a newline and `+` has ended with the one token `+` of line 1
C25_Witness ==
    /\ rstate = "scanned"
    /\ scanner.code = <<"/", "/", "a", "\n", "+">>
    /\ scanner.tokens = <<Token("PLUS", <<"+">>, None, 1)>>

\* C26: the line counter after a call of scan_token, and the line of the
\* token the call emitted, is the starting line 0 plus the number of newline
\* characters of the source before the end of what the call consumed: only a
\* newline moves the counter, and the lines of the tokens never decrease
C26_LinesCountNewlines ==
    [][ScanTokenRan
          => /\ scanner'.line = NewlinesIn(scanner.code, 1, scanner'.current)
             /\ \A k \in 1..Len(Emitted) :
                   Emitted[k].line = NewlinesIn(scanner.code, 1, scanner'.current)
             /\ \A k \in 2..Len(scanner'.tokens) :
                   scanner'.tokens[k - 1].line <= scanner'.tokens[k].line]_vars

\* C28: scan_tokens terminates on every source, the empty one included:
\* is_at_end never panics, every call of scan_token moves `current` forward
\* by at least one character, start <= current <= code.len() holds at every
\* step, and current = code.len() when scanning has ended
C28_ScanTokensTerminates ==
    [][/\ rstate' # "panicked"
       /\ ScanTokenRan => scanner'.current > scanner.current
       /\ scanner'.start <= scanner'.current
       /\ scanner'.current <= Len(scanner'.code)
       /\ rstate' = "scanned" => scanner'.current = Len(scanner'.code)]_vars

====
